---- MODULE Spec2Model ----
(***************************************************************************)
(* KRA_ERP forms backend: the record store (WheelSpecification and         *)
(* BogieChecksheet tables), the two create handlers and the two list       *)
(* handlers of Backend/apps/forms/api.py.                                  *)
(*                                                                         *)
(* Text values are finite sequences of one-character strings.  Dates are   *)
(* the values the schema layer has already coerced to calendar dates.      *)
(* A create handler is split at its database statements (user lookup,      *)
(* exists() pre-check, INSERT); every statement is atomic in the store.    *)
(* The handlers run in worker processes Procs; a list handler evaluates    *)
(* its query in one statement.                                             *)
(***************************************************************************)
EXTENDS Integers, Sequences, FiniteSets, TLC

VARIABLES users, accounts, issued, wheels, bogies, pc, req, usr, last, posted

vars == <<users, accounts, issued, wheels, bogies, pc, req, usr, last, posted>>

-----------------------------------------------------------------------------
(* Bounds *)

\* number of users present in the user directory
NumUsers == 2

\* worker processes serving requests concurrently
NumProcs == 2

\* stored records (of both types together) a sequential run creates
MaxRecords == 2

-----------------------------------------------------------------------------
(* Text helpers *)

\* str.lower() on one character of the alphabet in use
LowerChar(c) ==
  CASE c = "A" -> "a"
    [] c = "B" -> "b"
    [] OTHER -> c

Lower(s) == [i \in 1..Len(s) |-> LowerChar(s[i])]

\* case-sensitive containment: needle is a contiguous part of hay
ContainsExact(hay, needle) ==
  \E i \in 1..(Len(hay) + 1) :
     /\ i + Len(needle) - 1 <= Len(hay)
     /\ SubSeq(hay, i, i + Len(needle) - 1) = needle

IContains(hay, needle) == \E i \in 1..(Len(hay) + 1) :
     /\ i + Len(needle) - 1 <= Len(hay)
     /\ SubSeq(Lower(hay), i, i + Len(needle) - 1) = Lower(needle)

Digits == <<"0", "1", "2", "3", "4", "5", "6", "7", "8", "9">>

IsDigit(c) == \E d \in 1..10 : Digits[d] = c

DigitVal(c) == (CHOOSE d \in 1..10 : Digits[d] = c) - 1

RECURSIVE ParseDigits(_)
ParseDigits(s) ==
  IF Len(s) = 0 THEN 0
  ELSE 10 * ParseDigits(SubSeq(s, 1, Len(s) - 1)) + DigitVal(s[Len(s)])

\* int(value) as the ORM applies it to a primary-key lookup value;
\* -1 stands for ValueError (empty or non-numeric text)
IntOfText(s) ==
  IF Len(s) > 0 /\ \A i \in 1..Len(s) : IsDigit(s[i]) THEN ParseDigits(s) ELSE -1

RECURSIVE StrOfInt(_)
\* str(n) for n >= 0
StrOfInt(n) ==
  IF n < 10 THEN <<Digits[n + 1]>>
  ELSE StrOfInt(n \div 10) \o <<Digits[(n % 10) + 1]>>

\* str.title() on the status words of the models
Title(s) ==
  CASE s = "saved" -> "Saved"
    [] s = "submitted" -> "Submitted"
    [] s = "reviewed" -> "Reviewed"
    [] s = "approved" -> "Approved"
    [] s = "rejected" -> "Rejected"

-----------------------------------------------------------------------------
(* User directory *)

\* a lookup that parses the id and never consults the user table
GetUserByIdUnchecked(value) ==
  LET n == IntOfText(value)
  IN IF n > 0 THEN n ELSE 0

\* User.objects.get(id=value): the user's id, 0 for DoesNotExist / ValueError
GetUserById(value) ==
  LET n == IntOfText(value)
  IN IF n \in users THEN n ELSE 0

-----------------------------------------------------------------------------
(* Wheel specification: schema and table *)

\* WheelSpecificationFieldsSchema: internal field name -> external alias
WheelAlias ==
  [ tread_diameter_new        |-> "treadDiameterNew",
    last_shop_issue_size      |-> "lastShopIssueSize",
    condemning_dia            |-> "condemningDia",
    wheel_gauge               |-> "wheelGauge",
    variation_same_axle       |-> "variationSameAxle",
    variation_same_bogie      |-> "variationSameBogie",
    variation_same_coach      |-> "variationSameCoach",
    wheel_profile             |-> "wheelProfile",
    intermediate_wwp          |-> "intermediateWWP",
    bearing_seat_diameter     |-> "bearingSeatDiameter",
    roller_bearing_outer_dia  |-> "rollerBearingOuterDia",
    roller_bearing_bore_dia   |-> "rollerBearingBoreDia",
    roller_bearing_width      |-> "rollerBearingWidth",
    axle_box_housing_bore_dia |-> "axleBoxHousingBoreDia",
    wheel_disc_width          |-> "wheelDiscWidth" ]

WheelFieldNames == DOMAIN WheelAlias

WheelKeys == {WheelAlias[f] : f \in WheelFieldNames}

\* max_length of the varchar columns of wheel_specifications
WheelMaxLen ==
  [ tread_diameter_new        |-> 100,
    last_shop_issue_size      |-> 100,
    condemning_dia            |-> 100,
    wheel_gauge               |-> 100,
    variation_same_axle       |-> 50,
    variation_same_bogie      |-> 50,
    variation_same_coach      |-> 50,
    wheel_profile             |-> 100,
    intermediate_wwp          |-> 100,
    bearing_seat_diameter     |-> 100,
    roller_bearing_outer_dia  |-> 100,
    roller_bearing_bore_dia   |-> 100,
    roller_bearing_width      |-> 100,
    axle_box_housing_bore_dia |-> 100,
    wheel_disc_width          |-> 100 ]

FormNumberMaxLen == 50

StatusMaxLen == 20

\* an INSERT into a form_number column declared without unique=True
WheelInsertOutcomeNotUnique(rec) ==
  IF \/ Len(rec.form_number) > FormNumberMaxLen
     \/ \E f \in WheelFieldNames : Len(rec.fields[f]) > WheelMaxLen[f]
  THEN "DataError"
  ELSE "ok"

\* The INSERT into wheel_specifications: "ok", or the database error raised
\* (a value too long for its column is refused before the unique index is probed)
WheelInsertOutcome(rec) ==
  IF \/ Len(rec.form_number) > FormNumberMaxLen
     \/ \E f \in WheelFieldNames : Len(rec.fields[f]) > WheelMaxLen[f]
  THEN "DataError"
  ELSE IF \E w \in wheels : w.form_number = rec.form_number
       THEN "IntegrityError"
       ELSE "ok"

-----------------------------------------------------------------------------
(* Responses *)

NoReq == [op |-> "none"]

NoResp == [status |-> 0]

\* a failed user lookup answered as a successful listing without entries
UserNotFoundEmptyList(field) ==
  [ status |-> 200, success |-> TRUE,
    message |-> "Filtered forms fetched successfully.", data |-> {} ]

UserNotFound(field) ==
  [ status |-> 400, success |-> FALSE,
    message |-> "Invalid user ID provided",
    errors |-> [field |-> field, text |-> "User not found"] ]

FormNumberExists ==
  [ status |-> 400, success |-> FALSE,
    message |-> "Form number already exists",
    errors |-> [field |-> "form_number", text |-> "This form number is already in use"] ]

\* the except Exception branch: prefix + str(e), errors {"general": [str(e)]}
GeneralError(prefix, e) ==
  [ status |-> 400, success |-> FALSE,
    message |-> <<prefix, e>>,
    errors |-> [field |-> "general", text |-> e] ]

-----------------------------------------------------------------------------
(* create_wheel_specification *)

Procs == 1..NumProcs

\* a handler that checks the form number before it resolves the user
WheelResolveUserAfterCheck(p, r) ==
  /\ pc[p] = "idle"
  /\ r.op = "create_wheel"
  /\ LET user == GetUserById(r.body.submittedBy)
     IN IF \E w \in wheels : w.form_number = r.body.formNumber
        THEN /\ last' = [req |-> r, resp |-> FormNumberExists]
             /\ UNCHANGED <<pc, req, usr>>
        ELSE IF user = 0
        THEN /\ last' = [req |-> r, resp |-> UserNotFound("submitted_by")]
             /\ UNCHANGED <<pc, req, usr>>
        ELSE /\ pc' = [pc EXCEPT ![p] = "check"]
             /\ req' = [req EXCEPT ![p] = r]
             /\ usr' = [usr EXCEPT ![p] = user]
             /\ last' = [req |-> r, resp |-> NoResp]
  /\ UNCHANGED <<users, accounts, issued, wheels, bogies, posted>>

\* lines 47-56: the handler starts and resolves payload.submitted_by
WheelResolveUser(p, r) ==
  /\ pc[p] = "idle"
  /\ r.op = "create_wheel"
  /\ LET user == GetUserById(r.body.submittedBy)
     IN IF user = 0
        THEN /\ last' = [req |-> r, resp |-> UserNotFound("submitted_by")]
             /\ UNCHANGED <<pc, req, usr>>
        ELSE /\ pc' = [pc EXCEPT ![p] = "check"]
             /\ req' = [req EXCEPT ![p] = r]
             /\ usr' = [usr EXCEPT ![p] = user]
             /\ last' = [req |-> r, resp |-> NoResp]
  /\ UNCHANGED <<users, accounts, issued, wheels, bogies, posted>>

\* a handler without the pre-check: it goes straight on to the INSERT
WheelCheckExistsSkipped(p) ==
  /\ pc[p] = "check"
  /\ req[p].op = "create_wheel"
  /\ pc' = [pc EXCEPT ![p] = "insert"]
  /\ UNCHANGED <<req, usr, last>>
  /\ UNCHANGED <<users, accounts, issued, wheels, bogies, posted>>

\* lines 58-64: the exists() pre-check on the form number
WheelCheckExists(p) ==
  /\ pc[p] = "check"
  /\ req[p].op = "create_wheel"
  /\ IF \E w \in wheels : w.form_number = req[p].body.formNumber
     THEN /\ last' = [req |-> req[p], resp |-> FormNumberExists]
          /\ pc' = [pc EXCEPT ![p] = "idle"]
          /\ req' = [req EXCEPT ![p] = NoReq]
          /\ usr' = [usr EXCEPT ![p] = 0]
     ELSE /\ pc' = [pc EXCEPT ![p] = "insert"]
          /\ UNCHANGED <<req, usr, last>>
  /\ UNCHANGED <<users, accounts, issued, wheels, bogies, posted>>

\* a create(...) call that leaves status to the model default 'saved'
WheelRowDefaultStatus(body, user) ==
  [ form_number    |-> body.formNumber,
    submitted_by   |-> user,
    submitted_date |-> body.submittedDate,
    fields         |-> [f \in WheelFieldNames |-> body.fields[WheelAlias[f]]],
    status         |-> "saved" ]

\* the row built by WheelSpecification.objects.create(...), lines 67-87
WheelRow(body, user) ==
  [ form_number    |-> body.formNumber,
    submitted_by   |-> user,
    submitted_date |-> body.submittedDate,
    fields         |-> [f \in WheelFieldNames |-> body.fields[WheelAlias[f]]],
    status         |-> "submitted" ]

\* an insert that overwrites the table with the new row
WheelInsertReplacing(p) ==
  /\ pc[p] = "insert"
  /\ req[p].op = "create_wheel"
  /\ LET wheel_spec == WheelRow(req[p].body, usr[p])
         outcome == WheelInsertOutcome(wheel_spec)
     IN IF outcome = "ok"
        THEN /\ wheels' = {wheel_spec}
             /\ posted' = posted \cup {req[p]}
             /\ last' = [ req |-> req[p],
                          resp |-> [ status |-> 201, success |-> TRUE,
                                     message |-> "Wheel specification submitted successfully.",
                                     data |-> [ formNumber |-> wheel_spec.form_number,
                                                submittedBy |-> StrOfInt(wheel_spec.submitted_by),
                                                submittedDate |-> wheel_spec.submitted_date,
                                                status |-> Title(wheel_spec.status) ] ] ]
        ELSE /\ last' = [ req |-> req[p],
                          resp |-> GeneralError("Error creating wheel specification: ", outcome) ]
             /\ UNCHANGED <<wheels, posted>>
  /\ pc' = [pc EXCEPT ![p] = "idle"]
  /\ req' = [req EXCEPT ![p] = NoReq]
  /\ usr' = [usr EXCEPT ![p] = 0]
  /\ UNCHANGED <<users, accounts, issued, bogies>>

\* lines 66-105: INSERT and the 201 response, or the generic error
WheelInsert(p) ==
  /\ pc[p] = "insert"
  /\ req[p].op = "create_wheel"
  /\ LET wheel_spec == WheelRow(req[p].body, usr[p])
         outcome == WheelInsertOutcome(wheel_spec)
     IN IF outcome = "ok"
        THEN /\ wheels' = wheels \cup {wheel_spec}
             /\ posted' = posted \cup {req[p]}
             /\ last' = [ req |-> req[p],
                          resp |-> [ status |-> 201, success |-> TRUE,
                                     message |-> "Wheel specification submitted successfully.",
                                     data |-> [ formNumber |-> wheel_spec.form_number,
                                                submittedBy |-> StrOfInt(wheel_spec.submitted_by),
                                                submittedDate |-> wheel_spec.submitted_date,
                                                status |-> Title(wheel_spec.status) ] ] ]
        ELSE /\ last' = [ req |-> req[p],
                          resp |-> GeneralError("Error creating wheel specification: ", outcome) ]
             /\ UNCHANGED <<wheels, posted>>
  /\ pc' = [pc EXCEPT ![p] = "idle"]
  /\ req' = [req EXCEPT ![p] = NoReq]
  /\ usr' = [usr EXCEPT ![p] = 0]
  /\ UNCHANGED <<users, accounts, issued, bogies>>

-----------------------------------------------------------------------------
(* Bogie checksheet: schema and table *)

\* BogieChecksheetSchema and BMBCChecksheetSchema: internal name -> external key
\* (bolster has no alias)
ConditionAlias ==
  [ bogie_frame_condition      |-> "bogieFrameCondition",
    bolster                    |-> "bolster",
    bolster_suspension_bracket |-> "bolsterSuspensionBracket",
    lower_spring_seat          |-> "lowerSpringSeat",
    axle_guide                 |-> "axleGuide",
    cylinder_body              |-> "cylinderBody",
    piston_trunnion            |-> "pistonTrunnion",
    adjusting_tube             |-> "adjustingTube",
    plunger_spring             |-> "plungerSpring" ]

BogieConditionNames ==
  {"bogie_frame_condition", "bolster", "bolster_suspension_bracket",
   "lower_spring_seat", "axle_guide"}

BmbcConditionNames ==
  {"cylinder_body", "piston_trunnion", "adjusting_tube", "plunger_spring"}

ConditionNames == BogieConditionNames \cup BmbcConditionNames

\* max_length of the condition columns of bogie_checksheets
ConditionMaxLen == 50

BogieNoMaxLen == 50

MakerYearBuiltMaxLen == 100

IncomingDivAndDateMaxLen == 200

TextNone == <<"N", "o", "n", "e">>

\* BogieDetailsSchema: aliases, and the default of deficit_components
BogieDetailsSchema(raw) ==
  [ bogie_no              |-> raw.bogieNo,
    maker_year_built      |-> raw.makerYearBuilt,
    incoming_div_and_date |-> raw.incomingDivAndDate,
    deficit_components    |-> IF "deficitComponents" \in DOMAIN raw
                              THEN raw.deficitComponents ELSE TextNone,
    date_of_ioh           |-> raw.dateOfIOH ]

\* BogieChecksheetCreateSchema: the validated payload the handler receives
BogieChecksheetCreateSchema(body) ==
  [ form_number      |-> body.formNumber,
    inspection_by    |-> body.inspectionBy,
    inspection_date  |-> body.inspectionDate,
    bogie_details    |-> BogieDetailsSchema(body.bogieDetails),
    bogie_checksheet |-> [f \in BogieConditionNames |->
                             body.bogieChecksheet[ConditionAlias[f]]],
    bmbc_checksheet  |-> [f \in BmbcConditionNames |->
                             body.bmbcChecksheet[ConditionAlias[f]]] ]

\* an INSERT that enforces the choices declared on the condition columns
BogieInsertOutcomeChoices(rec) ==
  IF \E f \in ConditionNames :
        rec.conditions[f] \notin {<<"G", "o", "o", "d">>, <<"G", "O", "O", "D">>}
  THEN "ValidationError"
  ELSE IF \/ Len(rec.form_number) > FormNumberMaxLen
     \/ Len(rec.bogie_no) > BogieNoMaxLen
     \/ Len(rec.maker_year_built) > MakerYearBuiltMaxLen
     \/ Len(rec.incoming_div_and_date) > IncomingDivAndDateMaxLen
     \/ \E f \in ConditionNames : Len(rec.conditions[f]) > ConditionMaxLen
  THEN "DataError"
  ELSE IF \E b \in bogies : b.form_number = rec.form_number
       THEN "IntegrityError"
       ELSE "ok"

\* The INSERT into bogie_checksheets: "ok", or the database error raised
BogieInsertOutcome(rec) ==
  IF \/ Len(rec.form_number) > FormNumberMaxLen
     \/ Len(rec.bogie_no) > BogieNoMaxLen
     \/ Len(rec.maker_year_built) > MakerYearBuiltMaxLen
     \/ Len(rec.incoming_div_and_date) > IncomingDivAndDateMaxLen
     \/ \E f \in ConditionNames : Len(rec.conditions[f]) > ConditionMaxLen
  THEN "DataError"
  ELSE IF \E b \in bogies : b.form_number = rec.form_number
       THEN "IntegrityError"
       ELSE "ok"

-----------------------------------------------------------------------------
(* create_bogie_checksheet *)

\* lines 211-220: the handler starts and resolves payload.inspection_by
BogieResolveUser(p, r) ==
  /\ pc[p] = "idle"
  /\ r.op = "create_bogie"
  /\ LET payload == BogieChecksheetCreateSchema(r.body)
         user == GetUserById(payload.inspection_by)
     IN IF user = 0
        THEN /\ last' = [req |-> r, resp |-> UserNotFound("inspection_by")]
             /\ UNCHANGED <<pc, req, usr>>
        ELSE /\ pc' = [pc EXCEPT ![p] = "check"]
             /\ req' = [req EXCEPT ![p] = r]
             /\ usr' = [usr EXCEPT ![p] = user]
             /\ last' = [req |-> r, resp |-> NoResp]
  /\ UNCHANGED <<users, accounts, issued, wheels, bogies, posted>>

\* lines 222-228: the exists() pre-check on the form number
BogieCheckExists(p) ==
  /\ pc[p] = "check"
  /\ req[p].op = "create_bogie"
  /\ LET payload == BogieChecksheetCreateSchema(req[p].body)
     IN IF \E b \in bogies : b.form_number = payload.form_number
        THEN /\ last' = [req |-> req[p], resp |-> FormNumberExists]
             /\ pc' = [pc EXCEPT ![p] = "idle"]
             /\ req' = [req EXCEPT ![p] = NoReq]
             /\ usr' = [usr EXCEPT ![p] = 0]
        ELSE /\ pc' = [pc EXCEPT ![p] = "insert"]
             /\ UNCHANGED <<req, usr, last>>
  /\ UNCHANGED <<users, accounts, issued, wheels, bogies, posted>>

\* a create(...) call that leaves status to the model default 'saved'
BogieRowDefaultStatus(payload, user) ==
  [ form_number           |-> payload.form_number,
    inspection_by         |-> user,
    inspection_date       |-> payload.inspection_date,
    bogie_no              |-> payload.bogie_details.bogie_no,
    maker_year_built      |-> payload.bogie_details.maker_year_built,
    incoming_div_and_date |-> payload.bogie_details.incoming_div_and_date,
    deficit_components    |-> payload.bogie_details.deficit_components,
    date_of_ioh           |-> payload.bogie_details.date_of_ioh,
    conditions            |-> [f \in ConditionNames |->
                                 IF f \in BogieConditionNames
                                 THEN payload.bogie_checksheet[f]
                                 ELSE payload.bmbc_checksheet[f]],
    status                |-> "saved" ]

\* the row built by BogieChecksheet.objects.create(...), lines 231-253
BogieRow(payload, user) ==
  [ form_number           |-> payload.form_number,
    inspection_by         |-> user,
    inspection_date       |-> payload.inspection_date,
    bogie_no              |-> payload.bogie_details.bogie_no,
    maker_year_built      |-> payload.bogie_details.maker_year_built,
    incoming_div_and_date |-> payload.bogie_details.incoming_div_and_date,
    deficit_components    |-> payload.bogie_details.deficit_components,
    date_of_ioh           |-> payload.bogie_details.date_of_ioh,
    conditions            |-> [f \in ConditionNames |->
                                 IF f \in BogieConditionNames
                                 THEN payload.bogie_checksheet[f]
                                 ELSE payload.bmbc_checksheet[f]],
    status                |-> "submitted" ]

\* lines 230-271: INSERT and the 201 response, or the generic error
BogieInsert(p) ==
  /\ pc[p] = "insert"
  /\ req[p].op = "create_bogie"
  /\ LET bogie_checksheet == BogieRow(BogieChecksheetCreateSchema(req[p].body), usr[p])
         outcome == BogieInsertOutcome(bogie_checksheet)
     IN IF outcome = "ok"
        THEN /\ bogies' = bogies \cup {bogie_checksheet}
             /\ posted' = posted \cup {req[p]}
             /\ last' = [ req |-> req[p],
                          resp |-> [ status |-> 201, success |-> TRUE,
                                     message |-> "Bogie checksheet submitted successfully.",
                                     data |-> [ formNumber |-> bogie_checksheet.form_number,
                                                inspectionBy |-> StrOfInt(bogie_checksheet.inspection_by),
                                                inspectionDate |-> bogie_checksheet.inspection_date,
                                                status |-> Title(bogie_checksheet.status) ] ] ]
        ELSE /\ last' = [ req |-> req[p],
                          resp |-> GeneralError("Error creating bogie checksheet: ", outcome) ]
             /\ UNCHANGED <<bogies, posted>>
  /\ pc' = [pc EXCEPT ![p] = "idle"]
  /\ req' = [req EXCEPT ![p] = NoReq]
  /\ usr' = [usr EXCEPT ![p] = 0]
  /\ UNCHANGED <<users, accounts, issued, wheels>>

-----------------------------------------------------------------------------
(* Query parameters of the list handlers *)

\* a query parameter the request does not carry / carries with value v
Absent == [some |-> FALSE]

Given(v) == [some |-> TRUE, v |-> v]

\* a test for None only, which takes "" for a supplied value
TruthyTextNotNone(o) == o.some

\* Python truth value of an Optional[str] parameter: None and "" are false
TruthyText(o) == o.some /\ Len(o.v) > 0

\* Python truth value of an Optional[date] parameter: only None is false
TruthyDate(o) == o.some

-----------------------------------------------------------------------------
(* get_wheel_specifications *)

\* a listing that reads wheelGauge and wheelProfile from each other's column
WheelListColumnsSwapped ==
  [ treadDiameterNew      |-> "tread_diameter_new",
    lastShopIssueSize     |-> "last_shop_issue_size",
    condemningDia         |-> "condemning_dia",
    wheelGauge            |-> "wheel_profile",
    variationSameAxle     |-> "variation_same_axle",
    variationSameBogie    |-> "variation_same_bogie",
    variationSameCoach    |-> "variation_same_coach",
    wheelProfile          |-> "wheel_gauge",
    intermediateWWP       |-> "intermediate_wwp",
    bearingSeatDiameter   |-> "bearing_seat_diameter",
    rollerBearingOuterDia |-> "roller_bearing_outer_dia",
    rollerBearingBoreDia  |-> "roller_bearing_bore_dia",
    rollerBearingWidth    |-> "roller_bearing_width",
    axleBoxHousingBoreDia |-> "axle_box_housing_bore_dia",
    wheelDiscWidth        |-> "wheel_disc_width" ]

\* the keys under "fields" of a listed entry and the column each is read from
WheelListColumns ==
  [ treadDiameterNew      |-> "tread_diameter_new",
    lastShopIssueSize     |-> "last_shop_issue_size",
    condemningDia         |-> "condemning_dia",
    wheelGauge            |-> "wheel_gauge",
    variationSameAxle     |-> "variation_same_axle",
    variationSameBogie    |-> "variation_same_bogie",
    variationSameCoach    |-> "variation_same_coach",
    wheelProfile          |-> "wheel_profile",
    intermediateWWP       |-> "intermediate_wwp",
    bearingSeatDiameter   |-> "bearing_seat_diameter",
    rollerBearingOuterDia |-> "roller_bearing_outer_dia",
    rollerBearingBoreDia  |-> "roller_bearing_bore_dia",
    rollerBearingWidth    |-> "roller_bearing_width",
    axleBoxHousingBoreDia |-> "axle_box_housing_bore_dia",
    wheelDiscWidth        |-> "wheel_disc_width" ]

\* lines 153-175: one entry of the data array
WheelEntry(spec) ==
  [ formNumber    |-> spec.form_number,
    submittedBy   |-> StrOfInt(spec.submitted_by),
    submittedDate |-> spec.submitted_date,
    status        |-> Title(spec.status),
    fields        |-> [k \in DOMAIN WheelListColumns |-> spec.fields[WheelListColumns[k]]] ]

\* lines 132-134: queryset.filter(form_number__icontains=form_number)
WheelFilterFormNumber(queryset, form_number) ==
  {w \in queryset : IContains(w.form_number, form_number)}

\* line 138: queryset.filter(submitted_by=user)
WheelFilterSubmittedBy(queryset, user) ==
  {w \in queryset : w.submitted_by = user}

\* a date filter applied to the whole table instead of the narrowed queryset
WheelFilterSubmittedDateFromAll(queryset, submitted_date) ==
  {w \in wheels : w.submitted_date = submitted_date}

\* line 147: queryset.filter(submitted_date=submitted_date)
WheelFilterSubmittedDate(queryset, submitted_date) ==
  {w \in queryset : w.submitted_date = submitted_date}

\* lines 127-186: the response computed from the bound query parameters
WheelListResponse(query) ==
  LET form_number == query.form_number
      submitted_by == query.submitted_by
      submitted_date == query.submitted_date
      q0 == wheels
      q1 == IF TruthyText(form_number)
            THEN WheelFilterFormNumber(q0, form_number.v) ELSE q0
      user == IF TruthyText(submitted_by) THEN GetUserById(submitted_by.v) ELSE 0
      q2 == IF TruthyText(submitted_by)
            THEN WheelFilterSubmittedBy(q1, user) ELSE q1
      q3 == IF TruthyDate(submitted_date)
            THEN WheelFilterSubmittedDate(q2, submitted_date.v) ELSE q2
      filters_applied == \/ TruthyText(form_number)
                         \/ TruthyText(submitted_by)
                         \/ TruthyDate(submitted_date)
  IN IF TruthyText(submitted_by) /\ user = 0
     THEN UserNotFound("submitted_by")
     ELSE [ status |-> 200, success |-> TRUE,
            message |-> IF filters_applied
                        THEN "Filtered wheel specification forms fetched successfully."
                        ELSE "All wheel specification forms fetched successfully.",
            data |-> {WheelEntry(spec) : spec \in q3} ]

\* a listing that removes the rows it has returned
GetWheelSpecificationsConsuming(p, r) ==
  /\ pc[p] = "idle"
  /\ r.op = "get_wheels"
  /\ last' = [req |-> r, resp |-> WheelListResponse(r.query)]
  /\ wheels' = {w \in wheels : WheelListResponse(r.query).status = 400}
  /\ UNCHANGED <<users, accounts, issued, bogies, pc, req, usr, posted>>

\* lines 113-193; the handler binds the query parameters named in its signature
GetWheelSpecifications(p, r) ==
  /\ pc[p] = "idle"
  /\ r.op = "get_wheels"
  /\ last' = [req |-> r, resp |-> WheelListResponse(r.query)]
  /\ UNCHANGED <<users, accounts, issued, wheels, bogies, pc, req, usr, posted>>

-----------------------------------------------------------------------------
(* get_bogie_checksheets *)

\* lines 326-351: one entry of the data array
BogieEntry(checksheet) ==
  [ formNumber     |-> checksheet.form_number,
    inspectionBy   |-> StrOfInt(checksheet.inspection_by),
    inspectionDate |-> checksheet.inspection_date,
    status         |-> Title(checksheet.status),
    bogieDetails   |-> [ bogieNo            |-> checksheet.bogie_no,
                         makerYearBuilt     |-> checksheet.maker_year_built,
                         incomingDivAndDate |-> checksheet.incoming_div_and_date,
                         deficitComponents  |-> checksheet.deficit_components,
                         dateOfIOH          |-> checksheet.date_of_ioh ],
    bogieChecksheet |-> [ bogieFrameCondition      |-> checksheet.conditions.bogie_frame_condition,
                          bolster                  |-> checksheet.conditions.bolster,
                          bolsterSuspensionBracket |-> checksheet.conditions.bolster_suspension_bracket,
                          lowerSpringSeat          |-> checksheet.conditions.lower_spring_seat,
                          axleGuide                |-> checksheet.conditions.axle_guide ],
    bmbcChecksheet  |-> [ cylinderBody   |-> checksheet.conditions.cylinder_body,
                          pistonTrunnion |-> checksheet.conditions.piston_trunnion,
                          adjustingTube  |-> checksheet.conditions.adjusting_tube,
                          plungerSpring  |-> checksheet.conditions.plunger_spring ] ]

\* lines 301-303: queryset.filter(form_number__icontains=form_number)
BogieFilterFormNumber(queryset, form_number) ==
  {b \in queryset : IContains(b.form_number, form_number)}

\* line 307: queryset.filter(inspection_by=user)
BogieFilterInspectionBy(queryset, user) ==
  {b \in queryset : b.inspection_by = user}

\* line 316: queryset.filter(inspection_date=inspection_date)
BogieFilterInspectionDate(queryset, inspection_date) ==
  {b \in queryset : b.inspection_date = inspection_date}

\* line 319: queryset.filter(bogie_no__icontains=bogie_no)
BogieFilterBogieNo(queryset, bogie_no) ==
  {b \in queryset : IContains(b.bogie_no, bogie_no)}

\* lines 295-363: the response computed from the bound query parameters
BogieListResponse(query) ==
  LET form_number == query.form_number
      inspection_by == query.inspection_by
      inspection_date == query.inspection_date
      bogie_no == query.bogie_no
      q0 == bogies
      q1 == IF TruthyText(form_number)
            THEN BogieFilterFormNumber(q0, form_number.v) ELSE q0
      user == IF TruthyText(inspection_by) THEN GetUserById(inspection_by.v) ELSE 0
      q2 == IF TruthyText(inspection_by)
            THEN BogieFilterInspectionBy(q1, user) ELSE q1
      q3 == IF TruthyDate(inspection_date)
            THEN BogieFilterInspectionDate(q2, inspection_date.v) ELSE q2
      q4 == IF TruthyText(bogie_no)
            THEN BogieFilterBogieNo(q3, bogie_no.v) ELSE q3
      filters_applied == \/ TruthyText(form_number)
                         \/ TruthyText(inspection_by)
                         \/ TruthyDate(inspection_date)
                         \/ TruthyText(bogie_no)
  IN IF TruthyText(inspection_by) /\ user = 0
     THEN UserNotFound("inspection_by")
     ELSE [ status |-> 200, success |-> TRUE,
            message |-> IF filters_applied
                        THEN "Filtered bogie checksheet forms fetched successfully."
                        ELSE "All bogie checksheet forms fetched successfully.",
            data |-> {BogieEntry(checksheet) : checksheet \in q4} ]

\* lines 279-370; the handler binds the query parameters named in its signature
GetBogieChecksheets(p, r) ==
  /\ pc[p] = "idle"
  /\ r.op = "get_bogies"
  /\ last' = [req |-> r, resp |-> BogieListResponse(r.query)]
  /\ UNCHANGED <<users, accounts, issued, wheels, bogies, pc, req, usr, posted>>

-----------------------------------------------------------------------------
(* Requests *)

Dates == {"2025-01-20", "2025-01-21"}

Tokens == {"none", "valid"}

\* fifteen distinct measurement values, one per key
FieldsDistinct == [k \in WheelKeys |-> <<"9", k>>]

\* the same short value under every key
FieldsSame == [k \in WheelKeys |-> <<"9", "1", "5">>]

\* a tread diameter text one character longer than its column
FieldsLong ==
  [FieldsSame EXCEPT !["treadDiameterNew"] =
      [i \in 1..(WheelMaxLen.tread_diameter_new + 1) |-> "9"]]

WheelRequest(t, fn, by, d, fs) ==
  [ op |-> "create_wheel", token |-> t,
    body |-> [formNumber |-> fn, submittedBy |-> by, submittedDate |-> d, fields |-> fs] ]

TextGood == <<"G", "o", "o", "d">>

TextGOOD == <<"G", "O", "O", "D">>

\* condition values inside the documented vocabulary
BogieConditionsGood ==
  [k \in {ConditionAlias[f] : f \in BogieConditionNames} |-> TextGood]

BmbcConditionsGood ==
  [k \in {ConditionAlias[f] : f \in BmbcConditionNames} |-> TextGOOD]

\* a bolster text one character longer than its column
BogieConditionsLong ==
  [BogieConditionsGood EXCEPT !["bolster"] = [i \in 1..(ConditionMaxLen + 1) |-> "G"]]

BogieDetails(no, withDeficit) ==
  LET base == [ bogieNo |-> no,
                makerYearBuilt |-> <<"R", "D", "S", "O">>,
                incomingDivAndDate |-> <<"N", "R">>,
                dateOfIOH |-> "2025-01-20" ]
  IN IF withDeficit
     THEN base @@ [deficitComponents |-> <<"p", "a", "d">>]
     ELSE base

BogieRequest(t, fn, by, d, details, conds, bmbc) ==
  [ op |-> "create_bogie", token |-> t,
    body |-> [ formNumber |-> fn, inspectionBy |-> by, inspectionDate |-> d,
               bogieDetails |-> details, bogieChecksheet |-> conds,
               bmbcChecksheet |-> bmbc ] ]

\* a GET /wheel-specifications request; formNumber is the documented external
\* name, which the handler's signature does not declare
WheelQuery(t, fn, by, d, extFn) ==
  [ op |-> "get_wheels", token |-> t,
    query |-> [ form_number |-> fn, submitted_by |-> by, submitted_date |-> d,
                formNumber |-> extFn ] ]

\* a GET /bogie-checksheets request; bogieNo is the documented external name,
\* which the handler's signature does not declare
BogieQuery(t, fn, by, d, no, extNo) ==
  [ op |-> "get_bogies", token |-> t,
    query |-> [ form_number |-> fn, inspection_by |-> by, inspection_date |-> d,
                bogie_no |-> no, bogieNo |-> extNo ] ]

Opt(S) == {Absent} \cup {Given(v) : v \in S}

-----------------------------------------------------------------------------
(* Initial state *)

\* the phone number of the n-th account
PhoneOf(n) == <<"+91", n>>

Password == "password1"

\* a row of the users table: the columns the handlers read or write; of the
\* profile columns the model keeps first_name (every request that creates a
\* user names them "A") and department (blank by default)
Account(phone_number, is_staff, is_active) ==
  [ phone_number |-> phone_number, password |-> Password,
    is_staff |-> is_staff, is_active |-> is_active,
    first_name |-> "A", department |-> "" ]

Init ==
  /\ users = 1..NumUsers
  /\ accounts = [u \in 1..NumUsers |-> Account(PhoneOf(u), TRUE, TRUE)]
  /\ issued = {}
  /\ wheels = {}
  /\ bogies = {}
  /\ pc = [p \in Procs |-> "idle"]
  /\ req = [p \in Procs |-> NoReq]
  /\ usr = [p \in Procs |-> 0]
  /\ last = [req |-> NoReq, resp |-> NoResp]
  /\ posted = {}

FormNumbers == {<<"A", "b">>, <<"b">>}

BogieNumbers == {<<"B", "1">>, <<"b", "2">>}

StoredRecords == Cardinality(wheels) + Cardinality(bogies)

-----------------------------------------------------------------------------
(* Spec: one worker; creates with every kind of user reference and field    *)
(* set, and lists filtered by form number                                  *)

SeqWheelRequests ==
  { WheelRequest("valid", fn, by, "2025-01-21", fs) :
      fn \in FormNumbers, by \in {<<"1">>, <<"0", "1">>, <<"9">>, <<"x">>},
      fs \in {FieldsDistinct, FieldsSame, FieldsLong} }

SeqBogieRequests ==
  { BogieRequest("valid", fn, by, "2025-01-21", BogieDetails(<<"B", "1">>, wd),
                 BogieConditionsGood, BmbcConditionsGood) :
      fn \in FormNumbers, by \in {<<"0", "2">>, <<"2">>, <<"9">>, <<"x">>},
      wd \in BOOLEAN }

SeqWheelQueries ==
  { WheelQuery("valid", fn, Absent, Absent, Absent) : fn \in Opt(FormNumbers) }

SeqBogieQueries ==
  { BogieQuery("valid", fn, Absent, Absent, Absent, Absent) : fn \in Opt(FormNumbers) }

Next ==
  \/ \E r \in SeqWheelRequests : StoredRecords < MaxRecords /\ WheelResolveUser(1, r)
  \/ WheelCheckExists(1)
  \/ WheelInsert(1)
  \/ \E r \in SeqBogieRequests : StoredRecords < MaxRecords /\ BogieResolveUser(1, r)
  \/ BogieCheckExists(1)
  \/ BogieInsert(1)
  \/ \E r \in SeqWheelQueries : GetWheelSpecifications(1, r)
  \/ \E r \in SeqBogieQueries : GetBogieChecksheets(1, r)

Spec == Init /\ [][Next]_vars

-----------------------------------------------------------------------------
(* SpecList: one worker; stored records that differ in form number, user,  *)
(* date and bogie number, and lists with every combination of filters      *)

ListWheelRequests ==
  { WheelRequest("valid", fn, by, d, FieldsSame) :
      fn \in FormNumbers, by \in {<<"1">>, <<"2">>}, d \in Dates }

ListBogieRequests ==
  { BogieRequest("valid", fn, by, d, BogieDetails(no, TRUE),
                 BogieConditionsGood, BmbcConditionsGood) :
      fn \in FormNumbers, by \in {<<"1">>, <<"2">>}, d \in Dates, no \in BogieNumbers }

FilterTexts == {<<"a">>}

FilterUsers == {<<"1">>, <<"9">>, <<"x">>}

FilterDates == {"2025-01-21"}

FilterBogieNumbers == {<<"b", "1">>}

\* every combination of filters; empty-text values alone; the external names
ListWheelQueries ==
  { WheelQuery("valid", fn, by, d, Absent) :
      fn \in Opt(FilterTexts), by \in Opt(FilterUsers), d \in Opt(FilterDates) }
  \cup { WheelQuery("valid", Given(<<>>), Absent, Absent, Absent),
         WheelQuery("valid", Absent, Given(<<>>), Absent, Absent),
         WheelQuery("valid", Absent, Absent, Absent, Given(<<"a">>)),
         WheelQuery("valid", Absent, Given(<<"1">>), Absent, Given(<<"z">>)) }

ListBogieQueries ==
  { BogieQuery("valid", fn, by, d, no, Absent) :
      fn \in Opt(FilterTexts), by \in Opt(FilterUsers), d \in Opt(FilterDates),
      no \in Opt(FilterBogieNumbers) }
  \cup { BogieQuery("valid", Given(<<>>), Absent, Absent, Absent, Absent),
         BogieQuery("valid", Absent, Given(<<>>), Absent, Absent, Absent),
         BogieQuery("valid", Absent, Absent, Absent, Given(<<>>), Absent),
         BogieQuery("valid", Absent, Absent, Absent, Absent, Given(<<"b", "1">>)),
         BogieQuery("valid", Absent, Absent, Absent, Absent, Given(<<"z">>)),
         BogieQuery("valid", Absent, Given(<<"1">>), Absent, Absent, Given(<<"z">>)) }

NextList ==
  \/ \E r \in ListWheelRequests : StoredRecords < MaxRecords /\ WheelResolveUser(1, r)
  \/ WheelCheckExists(1)
  \/ WheelInsert(1)
  \/ \E r \in ListBogieRequests : StoredRecords < MaxRecords /\ BogieResolveUser(1, r)
  \/ BogieCheckExists(1)
  \/ BogieInsert(1)
  \/ \E r \in ListWheelQueries : GetWheelSpecifications(1, r)
  \/ \E r \in ListBogieQueries : GetBogieChecksheets(1, r)

SpecList == Init /\ [][NextList]_vars

-----------------------------------------------------------------------------
(* SpecAuth: one worker; requests with and without a bearer token          *)

AuthWheelRequests ==
  { WheelRequest(t, fn, <<"1">>, "2025-01-21", FieldsSame) :
      t \in Tokens, fn \in FormNumbers }

AuthBogieRequests ==
  { BogieRequest(t, fn, <<"1">>, "2025-01-21", BogieDetails(<<"B", "1">>, TRUE),
                 BogieConditionsGood, BmbcConditionsGood) :
      t \in Tokens, fn \in FormNumbers }

AuthWheelQueries ==
  { WheelQuery(t, Absent, Absent, Absent, Absent) : t \in Tokens }

AuthBogieQueries ==
  { BogieQuery(t, Absent, Absent, Absent, Absent, Absent) : t \in Tokens }

NextAuth ==
  \/ \E r \in AuthWheelRequests : WheelResolveUser(1, r)
  \/ WheelCheckExists(1)
  \/ WheelInsert(1)
  \/ \E r \in AuthBogieRequests : BogieResolveUser(1, r)
  \/ BogieCheckExists(1)
  \/ BogieInsert(1)
  \/ \E r \in AuthWheelQueries : GetWheelSpecifications(1, r)
  \/ \E r \in AuthBogieQueries : GetBogieChecksheets(1, r)

SpecAuth == Init /\ [][NextAuth]_vars

-----------------------------------------------------------------------------
(* SpecConc: NumProcs workers run the create handlers concurrently         *)

ConcWheelRequests ==
  { WheelRequest("valid", <<"A", "b">>, <<"1">>, "2025-01-21", FieldsDistinct),
    WheelRequest("valid", <<"A", "b">>, <<"0", "1">>, "2025-01-20", FieldsSame),
    WheelRequest("valid", <<"b">>, <<"1">>, "2025-01-21", FieldsLong) }

ConcBogieRequests ==
  { BogieRequest("valid", <<"b">>, <<"2">>, "2025-01-21", BogieDetails(<<"B", "1">>, FALSE),
                 BogieConditionsGood, BmbcConditionsGood),
    BogieRequest("valid", <<"b">>, <<"1">>, "2025-01-20", BogieDetails(<<"b", "2">>, TRUE),
                 BogieConditionsGood, BmbcConditionsGood),
    BogieRequest("valid", <<"A", "b">>, <<"2">>, "2025-01-21", BogieDetails(<<"B", "1">>, TRUE),
                 BogieConditionsLong, BmbcConditionsGood) }

NextConc ==
  \E p \in Procs :
     \/ \E r \in ConcWheelRequests : WheelResolveUser(p, r)
     \/ WheelCheckExists(p)
     \/ WheelInsert(p)
     \/ \E r \in ConcBogieRequests : BogieResolveUser(p, r)
     \/ BogieCheckExists(p)
     \/ BogieInsert(p)

SpecConc == Init /\ [][NextConc]_vars

-----------------------------------------------------------------------------
(* Request validation: the body is parsed into the handler's payload schema *)
(* before the handler is called                                             *)

\* the texts that parse as an ISO calendar date
IsoDates == {"2025-01-20", "2025-01-21"}

\* a date field that accepts whatever text it is given
IsIsoDateAny(text) == TRUE

\* pydantic's parse of a date-typed field succeeds
IsIsoDate(text) == text \in IsoDates

\* schemas.py line 47 / 137: Field(..., max_length=50)
FormNumberSchemaMaxLen == 50

\* WheelSpecificationCreateSchema: the locations of the validation errors
WheelSpecificationCreateSchemaErrors(body) ==
  {<<k>> : k \in {"formNumber", "submittedBy", "submittedDate", "fields"} \ DOMAIN body}
  \cup (IF "formNumber" \in DOMAIN body /\ Len(body.formNumber) > FormNumberSchemaMaxLen
        THEN {<<"formNumber">>} ELSE {})
  \cup (IF "submittedDate" \in DOMAIN body /\ ~IsIsoDate(body.submittedDate)
        THEN {<<"submittedDate">>} ELSE {})
  \cup (IF "fields" \in DOMAIN body
        THEN {<<"fields", k>> : k \in WheelKeys \ DOMAIN body.fields} ELSE {})

\* BogieDetailsSchema: required keys, max_length and the date of IOH
BogieDetailsSchemaErrors(raw) ==
  {<<"bogieDetails", k>> :
      k \in {"bogieNo", "makerYearBuilt", "incomingDivAndDate", "dateOfIOH"} \ DOMAIN raw}
  \cup (IF "bogieNo" \in DOMAIN raw /\ Len(raw.bogieNo) > BogieNoMaxLen
        THEN {<<"bogieDetails", "bogieNo">>} ELSE {})
  \cup (IF "makerYearBuilt" \in DOMAIN raw /\ Len(raw.makerYearBuilt) > MakerYearBuiltMaxLen
        THEN {<<"bogieDetails", "makerYearBuilt">>} ELSE {})
  \cup (IF "incomingDivAndDate" \in DOMAIN raw
           /\ Len(raw.incomingDivAndDate) > IncomingDivAndDateMaxLen
        THEN {<<"bogieDetails", "incomingDivAndDate">>} ELSE {})
  \cup (IF "dateOfIOH" \in DOMAIN raw /\ ~IsIsoDate(raw.dateOfIOH)
        THEN {<<"bogieDetails", "dateOfIOH">>} ELSE {})

\* BogieChecksheetCreateSchema: the locations of the validation errors
BogieChecksheetCreateSchemaErrors(body) ==
  {<<k>> : k \in {"formNumber", "inspectionBy", "inspectionDate", "bogieDetails",
                  "bogieChecksheet", "bmbcChecksheet"} \ DOMAIN body}
  \cup (IF "formNumber" \in DOMAIN body /\ Len(body.formNumber) > FormNumberSchemaMaxLen
        THEN {<<"formNumber">>} ELSE {})
  \cup (IF "inspectionDate" \in DOMAIN body /\ ~IsIsoDate(body.inspectionDate)
        THEN {<<"inspectionDate">>} ELSE {})
  \cup (IF "bogieDetails" \in DOMAIN body
        THEN BogieDetailsSchemaErrors(body.bogieDetails) ELSE {})
  \cup (IF "bogieChecksheet" \in DOMAIN body
        THEN {<<"bogieChecksheet", ConditionAlias[f]>> : f \in
                 {f \in BogieConditionNames :
                     ConditionAlias[f] \notin DOMAIN body.bogieChecksheet}}
        ELSE {})
  \cup (IF "bmbcChecksheet" \in DOMAIN body
        THEN {<<"bmbcChecksheet", ConditionAlias[f]>> : f \in
                 {f \in BmbcConditionNames :
                     ConditionAlias[f] \notin DOMAIN body.bmbcChecksheet}}
        ELSE {})

\* the framework's answer to a body that fails validation: no handler call
ValidationFailed(errors) == [status |-> 422, detail |-> errors]

\* POST /wheel-specifications: the body is validated, then the handler runs
CreateWheelSpecification(p, r) ==
  /\ pc[p] = "idle"
  /\ r.op = "create_wheel"
  /\ LET errors == WheelSpecificationCreateSchemaErrors(r.body)
     IN IF errors # {}
        THEN /\ last' = [req |-> r, resp |-> ValidationFailed(errors)]
             /\ UNCHANGED <<users, accounts, issued, wheels, bogies, pc, req, usr, posted>>
        ELSE WheelResolveUser(p, r)

\* POST /bogie-checksheet: the body is validated, then the handler runs
CreateBogieChecksheet(p, r) ==
  /\ pc[p] = "idle"
  /\ r.op = "create_bogie"
  /\ LET errors == BogieChecksheetCreateSchemaErrors(r.body)
     IN IF errors # {}
        THEN /\ last' = [req |-> r, resp |-> ValidationFailed(errors)]
             /\ UNCHANGED <<users, accounts, issued, wheels, bogies, pc, req, usr, posted>>
        ELSE BogieResolveUser(p, r)

\* the function f without its key k
Without(f, k) == [x \in DOMAIN f \ {k} |-> f[x]]

-----------------------------------------------------------------------------
(* SpecValid: one worker; bodies that pass and bodies that fail validation, *)
(* condition values inside and outside the documented vocabulary            *)

WheelBase == WheelRequest("valid", <<"b">>, <<"1">>, "2025-01-21", FieldsDistinct)

ValidWheelRequests ==
  { WheelRequest("valid", fn, by, "2025-01-21", fs) :
      fn \in FormNumbers, by \in {<<"1">>, <<"9">>}, fs \in {FieldsDistinct, FieldsLong} }

InvalidWheelRequests ==
  { [WheelBase EXCEPT !.body = Without(WheelBase.body, k)] :
      k \in {"formNumber", "submittedBy", "submittedDate", "fields"} }
  \cup { [WheelBase EXCEPT !.body.fields = Without(FieldsDistinct, k)] :
           k \in {"treadDiameterNew", "wheelDiscWidth"} }
  \cup { [WheelBase EXCEPT !.body.submittedDate = d] : d \in {"21-01-2025", "2025-02-30"} }
  \cup { [WheelBase EXCEPT !.body.formNumber = [i \in 1..(FormNumberSchemaMaxLen + 1) |-> "b"]] }

TextOdd == <<"z", "z">>

\* condition values outside the documented vocabulary
BogieConditionsOdd ==
  [k \in {ConditionAlias[f] : f \in BogieConditionNames} |-> TextOdd]

BmbcConditionsOdd ==
  [k \in {ConditionAlias[f] : f \in BmbcConditionNames} |-> <<"g", "o", "o", "d">>]

BogieBase ==
  BogieRequest("valid", <<"b">>, <<"2">>, "2025-01-21", BogieDetails(<<"B", "1">>, FALSE),
               BogieConditionsGood, BmbcConditionsGood)

ValidBogieRequests ==
  { BogieRequest("valid", fn, by, "2025-01-21", BogieDetails(<<"B", "1">>, FALSE), c[1], c[2]) :
      fn \in FormNumbers, by \in {<<"2">>, <<"x">>},
      c \in { <<BogieConditionsGood, BmbcConditionsGood>>,
              <<BogieConditionsOdd, BmbcConditionsOdd>>,
              <<BogieConditionsLong, BmbcConditionsGood>> } }

InvalidBogieRequests ==
  { [BogieBase EXCEPT !.body = Without(BogieBase.body, k)] :
      k \in {"formNumber", "inspectionBy", "inspectionDate", "bogieDetails",
             "bogieChecksheet", "bmbcChecksheet"} }
  \cup { [BogieBase EXCEPT !.body.bogieDetails = Without(BogieBase.body.bogieDetails, k)] :
           k \in {"bogieNo", "makerYearBuilt", "incomingDivAndDate", "dateOfIOH"} }
  \cup { [BogieBase EXCEPT !.body.bogieChecksheet = Without(BogieConditionsGood, k)] :
           k \in {"bolster", "axleGuide"} }
  \cup { [BogieBase EXCEPT !.body.bmbcChecksheet = Without(BmbcConditionsGood, k)] :
           k \in {"plungerSpring"} }
  \cup { [BogieBase EXCEPT !.body.inspectionDate = "21-01-2025"],
         [BogieBase EXCEPT !.body.bogieDetails.dateOfIOH = "2025-02-30"] }

ValidWheelQueries ==
  { WheelQuery("valid", fn, by, Absent, Absent) :
      fn \in Opt({<<"b">>}), by \in Opt({<<"1">>, <<"9">>}) }

ValidBogieQueries ==
  { BogieQuery("valid", fn, by, Absent, Absent, Absent) :
      fn \in Opt({<<"b">>}), by \in Opt({<<"2">>, <<"x">>}) }

NextValid ==
  \/ \E r \in ValidWheelRequests \cup InvalidWheelRequests :
        StoredRecords < MaxRecords /\ CreateWheelSpecification(1, r)
  \/ WheelCheckExists(1)
  \/ WheelInsert(1)
  \/ \E r \in ValidBogieRequests \cup InvalidBogieRequests :
        StoredRecords < MaxRecords /\ CreateBogieChecksheet(1, r)
  \/ BogieCheckExists(1)
  \/ BogieInsert(1)
  \/ \E r \in ValidWheelQueries : GetWheelSpecifications(1, r)
  \/ \E r \in ValidBogieQueries : GetBogieChecksheets(1, r)

SpecValid == Init /\ [][NextValid]_vars

-----------------------------------------------------------------------------
(* Users API: responses, tokens and authentication *)

\* the value of a handler's return statement: a body, or a 2-tuple
Body(b) == [pair |-> FALSE, body |-> b]

Pair(first, second) == [pair |-> TRUE, first |-> first, second |-> second]

\* {"detail": text} and an integer, as members of a returned tuple
Detail(text) == [t |-> "dict", detail |-> text]

Code(n) == [t |-> "int", v |-> n]

\* the users router declares one response schema per operation: status 200
ResponseModels == {200}

\* the framework turns the returned value into the HTTP response: a 2-tuple
\* is read as (status, body) and the status looked up among the declared
\* response schemas; a status that is a dict or is not declared raises, and
\* the request ends with 500
ResultToResponse(result) ==
  IF ~result.pair
  THEN [status |-> 200, body |-> result.body]
  ELSE IF result.first.t = "int" /\ result.first.v \in ResponseModels
       THEN [status |-> result.first.v, body |-> result.second]
       ELSE [status |-> 500, body |-> [detail |-> "Internal Server Error"]]

\* a signed token: its type, the user it was made for and its jti, the
\* identifier that tells two tokens of one user apart
AccessToken(u, jti) == [kind |-> "access", user |-> u, jti |-> jti]

RefreshToken(u, jti) == [kind |-> "refresh", user |-> u, jti |-> jti]

\* the jti of the next token made (a fresh identifier)
NewJti == Cardinality(issued) + 1

\* RefreshToken.for_user(user) and its access_token
TokenPair(u) ==
  [refresh |-> RefreshToken(u, NewJti), access |-> AccessToken(u, NewJti + 1)]

\* the body returned by register, login and refresh
TokenResponse(access, refresh) ==
  [ access_token |-> access, refresh_token |-> refresh,
    token_type |-> "Bearer", expires_in |-> 3600 ]

\* the tokens clients hold
AccessTokens == {t \in issued : t.kind = "access"}

RefreshTokens == {t \in issued : t.kind = "refresh"}

\* the access tokens of user u
TokensOf(u) == {t \in AccessTokens : t.user = u}

\* tokens are refreshed while at most two for each user exist
MayIssue == Cardinality(issued) <= 2 * NumUsers

Unauthorized == [status |-> 401, body |-> [detail |-> "Unauthorized"]]

NotFound == [status |-> 404, body |-> [detail |-> "Not Found"]]

\* JWTAuth(): the id of the active user the access token was issued to, or 0
JWTAuth(token) ==
  IF token \in issued /\ token.kind = "access" /\ token.user \in users
     /\ accounts[token.user].is_active
  THEN token.user ELSE 0

\* the id the next inserted user row receives
NextUserId == CHOOSE n \in 1..(Cardinality(users) + 1) : n \notin users

\* the INSERT into the users table: phone_number is unique
InsertUserOutcome(phone_number) ==
  IF \E u \in users : accounts[u].phone_number = phone_number
  THEN "IntegrityError" ELSE "ok"

\* the process returns to idle
Done(p) ==
  /\ pc' = [pc EXCEPT ![p] = "idle"]
  /\ req' = [req EXCEPT ![p] = NoReq]
  /\ usr' = [usr EXCEPT ![p] = 0]

\* the handler of request r answers with result and ends
Answer(p, r, result) ==
  /\ last' = [req |-> r, resp |-> ResultToResponse(result)]
  /\ Done(p)

-----------------------------------------------------------------------------
(* register *)

\* lines 63-69: the phone number pre-check (the request carries no email)
RegisterCheckExists(p, r) ==
  /\ pc[p] = "idle"
  /\ r.op = "register"
  /\ IF \E u \in users : accounts[u].phone_number = r.phone_number
     THEN /\ Answer(p, r, Pair(Detail("User with this phone number already exists"), Code(400)))
     ELSE /\ pc' = [pc EXCEPT ![p] = "create"]
          /\ req' = [req EXCEPT ![p] = r]
          /\ UNCHANGED <<usr, last>>
  /\ UNCHANGED <<users, accounts, issued, wheels, bogies, posted>>

\* lines 71-93: create_user inside a transaction, then the token pair
RegisterCreate(p) ==
  /\ pc[p] = "create"
  /\ req[p].op = "register"
  /\ IF InsertUserOutcome(req[p].phone_number) = "ok"
     THEN /\ users' = users \cup {NextUserId}
          /\ accounts' = [u \in users \cup {NextUserId} |->
                            IF u = NextUserId
                            THEN Account(req[p].phone_number, FALSE, TRUE)
                            ELSE accounts[u]]
          /\ issued' = issued \cup {TokenPair(NextUserId).access, TokenPair(NextUserId).refresh}
          /\ Answer(p, req[p], Body(TokenResponse(TokenPair(NextUserId).access,
                                                  TokenPair(NextUserId).refresh)))
     ELSE /\ Answer(p, req[p], Pair(Detail("Registration failed: IntegrityError"), Code(500)))
          /\ UNCHANGED <<users, accounts, issued>>
  /\ UNCHANGED <<wheels, bogies, posted>>

-----------------------------------------------------------------------------
(* login *)

\* authenticate(): the user with this phone number and password, or 0
Authenticate(phone_number, password) ==
  IF \E u \in users : /\ accounts[u].phone_number = phone_number
                      /\ accounts[u].password = password
                      /\ accounts[u].is_active
  THEN CHOOSE u \in users : /\ accounts[u].phone_number = phone_number
                            /\ accounts[u].password = password
  ELSE 0

\* the login would give a second token pair to a user who holds one; the
\* specifications leave such logins out to keep the set of tokens bounded
Relogin(r) ==
  \E t \in issued : t.user = Authenticate(r.phone_number, r.password)

\* lines 128-150
Login(p, r) ==
  /\ pc[p] = "idle"
  /\ r.op = "login"
  /\ LET user == Authenticate(r.phone_number, r.password)
     IN IF user = 0
        THEN /\ Answer(p, r, Pair(Detail("Invalid phone number or password"), Code(401)))
             /\ UNCHANGED issued
        ELSE IF ~accounts[user].is_active
        THEN /\ Answer(p, r, Pair(Detail("User account is disabled"), Code(401)))
             /\ UNCHANGED issued
        ELSE /\ issued' = issued \cup {TokenPair(user).access, TokenPair(user).refresh}
             /\ Answer(p, r, Body(TokenResponse(TokenPair(user).access, TokenPair(user).refresh)))
  /\ UNCHANGED <<users, accounts, wheels, bogies, posted>>

-----------------------------------------------------------------------------
(* Authenticated operations of the users API *)

\* the user object JWTAuth() leaves in request.auth
AuthUser(u) == [id |-> u] @@ accounts[u]

\* auth=JWTAuth(): a request of operation op is authenticated before its
\* handler is called; without a valid token the answer is 401
Authenticated(p, r, op) ==
  /\ pc[p] = "idle"
  /\ r.op = op
  /\ LET u == JWTAuth(r.token)
     IN IF u = 0
        THEN /\ last' = [req |-> r, resp |-> Unauthorized]
             /\ UNCHANGED <<pc, req, usr>>
        ELSE /\ pc' = [pc EXCEPT ![p] = "handler"]
             /\ req' = [req EXCEPT ![p] = r @@ [auth |-> AuthUser(u)]]
             /\ UNCHANGED <<usr, last>>
  /\ UNCHANGED <<users, accounts, issued, wheels, bogies, posted>>

\* lines 196-224: get_profile returns request.auth
GetProfile(p, r) ==
  /\ pc[p] = "idle"
  /\ r.op = "get_profile"
  /\ LET u == JWTAuth(r.token)
     IN last' = [ req |-> r,
                  resp |-> IF u = 0 THEN Unauthorized
                           ELSE ResultToResponse(Body(AuthUser(u))) ]
  /\ UNCHANGED <<users, accounts, issued, wheels, bogies, pc, req, usr, posted>>

\* lines 153-193: RefreshToken(refresh_token) verifies the token itself;
\* refresh.access_token makes a new access token, and str(refresh) encodes the
\* token that was presented
Refresh(p, r) ==
  /\ pc[p] = "idle"
  /\ r.op = "refresh"
  /\ IF r.refresh_token \in issued /\ r.refresh_token.kind = "refresh"
     THEN /\ issued' = issued \cup {AccessToken(r.refresh_token.user, NewJti)}
          /\ last' = [ req |-> r,
                       resp |-> ResultToResponse(Body(
                                  TokenResponse(AccessToken(r.refresh_token.user, NewJti),
                                                r.refresh_token))) ]
     ELSE /\ last' = [ req |-> r,
                       resp |-> ResultToResponse(Pair(Detail("Invalid refresh token"), Code(401))) ]
          /\ UNCHANGED issued
  /\ UNCHANGED <<users, accounts, wheels, bogies, pc, req, usr, posted>>

\* create_user begins: JWTAuth()
CreateUserAuth(p, r) == Authenticated(p, r, "create_user")

\* lines 445-454: the staff check and the phone number pre-check
CreateUserCheck(p) ==
  /\ pc[p] = "handler"
  /\ req[p].op = "create_user"
  /\ IF ~req[p].auth.is_staff
     THEN Answer(p, req[p], Pair(Detail("Permission denied"), Code(403)))
     ELSE IF \E u \in users : accounts[u].phone_number = req[p].phone_number
     THEN Answer(p, req[p], Pair(Detail("User with this phone number already exists"), Code(400)))
     ELSE /\ pc' = [pc EXCEPT ![p] = "create"]
          /\ UNCHANGED <<req, usr, last>>
  /\ UNCHANGED <<users, accounts, issued, wheels, bogies, posted>>

\* lines 456-472: create_user inside a transaction
CreateUserCreate(p) ==
  /\ pc[p] = "create"
  /\ req[p].op = "create_user"
  /\ IF InsertUserOutcome(req[p].phone_number) = "ok"
     THEN /\ users' = users \cup {NextUserId}
          /\ accounts' = [u \in users \cup {NextUserId} |->
                            IF u = NextUserId
                            THEN Account(req[p].phone_number, req[p].is_staff, req[p].is_active)
                            ELSE accounts[u]]
          /\ Answer(p, req[p], Body([id |-> NextUserId] @@
                       Account(req[p].phone_number, req[p].is_staff, req[p].is_active)))
     ELSE /\ Answer(p, req[p], Pair(Detail("User creation failed: IntegrityError"), Code(500)))
          /\ UNCHANGED <<users, accounts>>
  /\ UNCHANGED <<issued, wheels, bogies, posted>>

\* delete_user begins: JWTAuth()
DeleteUserAuth(p, r) == Authenticated(p, r, "delete_user")

\* lines 572-579: the staff check, the self check and get_object_or_404
DeleteUserFetch(p) ==
  /\ pc[p] = "handler"
  /\ req[p].op = "delete_user"
  /\ IF ~req[p].auth.is_staff
     THEN Answer(p, req[p], Pair(Detail("Permission denied"), Code(403)))
     ELSE IF req[p].auth.id = req[p].user_id
     THEN Answer(p, req[p], Pair(Detail("Cannot delete your own account"), Code(400)))
     ELSE IF req[p].user_id \notin users
     THEN /\ last' = [req |-> req[p], resp |-> NotFound]
          /\ Done(p)
     ELSE /\ pc' = [pc EXCEPT ![p] = "save"]
          /\ req' = [req EXCEPT ![p] = req[p] @@ [user |-> accounts[req[p].user_id]]]
          /\ UNCHANGED <<usr, last>>
  /\ UNCHANGED <<users, accounts, issued, wheels, bogies, posted>>

\* user.delete() in place of the deactivation
DeleteUserSaveRemoving(p) ==
  /\ pc[p] = "save"
  /\ req[p].op = "delete_user"
  /\ users' = users \ {req[p].user_id}
  /\ accounts' = [u \in users \ {req[p].user_id} |-> accounts[u]]
  /\ Answer(p, req[p], Body([message |-> "User deactivated successfully", success |-> TRUE]))
  /\ UNCHANGED <<issued, wheels, bogies, posted>>

\* lines 579-586: user.is_active = False; user.save() writes the fetched object
DeleteUserSave(p) ==
  /\ pc[p] = "save"
  /\ req[p].op = "delete_user"
  /\ accounts' = [accounts EXCEPT ![req[p].user_id] =
                     [req[p].user EXCEPT !.is_active = FALSE]]
  /\ Answer(p, req[p], Body([message |-> "User deactivated successfully", success |-> TRUE]))
  /\ UNCHANGED <<users, issued, wheels, bogies, posted>>

-----------------------------------------------------------------------------
(* Profile updates, password change and the user queries *)

\* the optional fields of UserProfileSerializer the model keeps
ProfileFields == {"first_name", "department"}

\* a value of a request body: null, or a string
Null == [null |-> TRUE]

NotNull(v) == [null |-> FALSE, v |-> v]

\* the update loop of update_profile and update_user: every field the body
\* sets whose value is not None is assigned to the user object
SetFields(user, payload) ==
  [k \in DOMAIN user |->
     IF k \in DOMAIN payload /\ ~payload[k].null THEN payload[k].v ELSE user[k]]

\* the columns user.save() writes for a user object: all of them
Row(user) == [k \in DOMAIN user \ {"id"} |-> user[k]]

\* lines 262-270: the fields are set on request.auth, and user.save() writes
\* that object
UpdateProfileSave(p) ==
  /\ pc[p] = "handler"
  /\ req[p].op = "update_profile"
  /\ accounts' = [accounts EXCEPT ![req[p].auth.id] =
                     Row(SetFields(req[p].auth, req[p].payload))]
  /\ Answer(p, req[p], Body(SetFields(req[p].auth, req[p].payload)))
  /\ UNCHANGED <<users, issued, wheels, bogies, posted>>

\* lines 307-320: the old password is checked against request.auth, the new
\* one is set on it, and user.save() writes that object
ChangePasswordSave(p) ==
  /\ pc[p] = "handler"
  /\ req[p].op = "change_password"
  /\ IF req[p].auth.password # req[p].old_password
     THEN /\ Answer(p, req[p], Pair(Detail("Invalid old password"), Code(400)))
          /\ UNCHANGED accounts
     ELSE /\ accounts' = [accounts EXCEPT ![req[p].auth.id] =
                             Row([req[p].auth EXCEPT !.password = req[p].new_password])]
          /\ Answer(p, req[p], Body([message |-> "Password changed successfully",
                                     success |-> TRUE]))
  /\ UNCHANGED <<users, issued, wheels, bogies, posted>>

\* lines 354-359: the staff check, then every user
ListUsers(p) ==
  /\ pc[p] = "handler"
  /\ req[p].op = "list_users"
  /\ IF ~req[p].auth.is_staff
     THEN Answer(p, req[p], Pair(Detail("Permission denied"), Code(403)))
     ELSE Answer(p, req[p], Body({AuthUser(u) : u \in users}))
  /\ UNCHANGED <<users, accounts, issued, wheels, bogies, posted>>

\* lines 391-402: the caller's own id returns request.auth; otherwise the
\* staff check and get_object_or_404
GetUser(p) ==
  /\ pc[p] = "handler"
  /\ req[p].op = "get_user"
  /\ IF req[p].auth.id = req[p].user_id
     THEN Answer(p, req[p], Body(req[p].auth))
     ELSE IF ~req[p].auth.is_staff
     THEN Answer(p, req[p], Pair(Detail("Permission denied"), Code(403)))
     ELSE IF req[p].user_id \notin users
     THEN /\ last' = [req |-> req[p], resp |-> NotFound]
          /\ Done(p)
     ELSE Answer(p, req[p], Body(AuthUser(req[p].user_id)))
  /\ UNCHANGED <<users, accounts, issued, wheels, bogies, posted>>

\* lines 514-523: the caller's own id takes request.auth as the user;
\* otherwise the staff check and get_object_or_404
UpdateUserFetch(p) ==
  /\ pc[p] = "handler"
  /\ req[p].op = "update_user"
  /\ IF req[p].auth.id = req[p].user_id
     THEN /\ pc' = [pc EXCEPT ![p] = "save"]
          /\ req' = [req EXCEPT ![p] = req[p] @@ [user |-> Row(req[p].auth)]]
          /\ UNCHANGED <<usr, last>>
     ELSE IF ~req[p].auth.is_staff
     THEN Answer(p, req[p], Pair(Detail("Permission denied"), Code(403)))
     ELSE IF req[p].user_id \notin users
     THEN /\ last' = [req |-> req[p], resp |-> NotFound]
          /\ Done(p)
     ELSE /\ pc' = [pc EXCEPT ![p] = "save"]
          /\ req' = [req EXCEPT ![p] = req[p] @@ [user |-> accounts[req[p].user_id]]]
          /\ UNCHANGED <<usr, last>>
  /\ UNCHANGED <<users, accounts, issued, wheels, bogies, posted>>

\* lines 525-531: the fields are set on the user object, and user.save()
\* writes it
UpdateUserSave(p) ==
  /\ pc[p] = "save"
  /\ req[p].op = "update_user"
  /\ accounts' = [accounts EXCEPT ![req[p].user_id] =
                     SetFields(req[p].user, req[p].payload)]
  /\ Answer(p, req[p], Body([id |-> req[p].user_id] @@
                              SetFields(req[p].user, req[p].payload)))
  /\ UNCHANGED <<users, issued, wheels, bogies, posted>>

-----------------------------------------------------------------------------
(* Requests of the users API *)

NewPhone == <<"+91", 0>>

\* a request of operation op with the given parameters and body fields
UserRequest(op, fields) == [op |-> op] @@ fields

\* POST /login with the phone number of user u
LoginRequest(u, password) ==
  UserRequest("login", [phone_number |-> PhoneOf(u), password |-> password])

-----------------------------------------------------------------------------
(* SpecReg: NumProcs workers; register and create_user calls with a phone  *)
(* number that is taken and with one that is free                          *)

NextReg ==
  \E p \in Procs :
     \/ \E r \in {LoginRequest(1, Password)} : ~Relogin(r) /\ Login(p, r)
     \/ \E ph \in {PhoneOf(2), NewPhone} :
           RegisterCheckExists(p, UserRequest("register", [phone_number |-> ph,
                                                           password |-> Password]))
     \/ RegisterCreate(p)
     \/ \E t \in AccessTokens \cup {AccessToken(1, 0)}, ph \in {PhoneOf(2), NewPhone} :
           CreateUserAuth(p, UserRequest("create_user",
                                [ token |-> t, phone_number |-> ph,
                                  is_staff |-> FALSE, is_active |-> TRUE ]))
     \/ CreateUserCheck(p)
     \/ CreateUserCreate(p)

SpecReg == Init /\ [][NextReg]_vars

-----------------------------------------------------------------------------
(* SpecDel: NumProcs workers; staff users log in and deactivate users       *)

NextDel ==
  \E p \in Procs :
     \/ \E u \in 1..NumUsers : ~Relogin(LoginRequest(u, Password))
                                /\ Login(p, LoginRequest(u, Password))
     \/ \E t \in AccessTokens, id \in 1..NumUsers :
           DeleteUserAuth(p, UserRequest("delete_user", [token |-> t, user_id |-> id]))
     \/ DeleteUserFetch(p)
     \/ DeleteUserSave(p)

SpecDel == Init /\ [][NextDel]_vars

-----------------------------------------------------------------------------
(* SpecAccess: one worker; users log in, are deactivated and go on using    *)
(* their credentials and tokens; a token nobody was issued is tried too     *)

NextAccess ==
  \/ \E u \in 1..NumUsers, pw \in {Password, "wrong"} :
        ~Relogin(LoginRequest(u, pw)) /\ Login(1, LoginRequest(u, pw))
  \/ \E t \in AccessTokens, id \in 1..NumUsers \cup {9} :
        DeleteUserAuth(1, UserRequest("delete_user", [token |-> t, user_id |-> id]))
  \/ DeleteUserFetch(1)
  \/ DeleteUserSave(1)
  \/ \E t \in AccessTokens \cup {AccessToken(1, 0)} :
        GetProfile(1, UserRequest("get_profile", [token |-> t]))
  \/ \E t \in RefreshTokens \cup {AccessToken(1, 0)} :
        MayIssue /\ Refresh(1, UserRequest("refresh", [refresh_token |-> t]))
  \/ \E t \in AccessTokens :
        WheelResolveUser(1, WheelRequest(t, <<"b">>, StrOfInt(t.user), "2025-01-21", FieldsSame))
  \/ WheelCheckExists(1)
  \/ WheelInsert(1)
  \/ \E t \in AccessTokens :
        GetWheelSpecifications(1, WheelQuery(t, Absent, Absent, Absent, Absent))

SpecAccess == Init /\ [][NextAccess]_vars

-----------------------------------------------------------------------------
(* SpecAdmin: one worker; a staff user and a registered (non-staff) user    *)
(* call the user management operations                                      *)

\* the ids named in the path: the first user, the registered user, nobody
AdminUserIds == {1, NumUsers + 1, 9}

NextAdmin ==
  \/ \E r \in {LoginRequest(1, Password)} : ~Relogin(r) /\ Login(1, r)
  \/ RegisterCheckExists(1, UserRequest("register", [phone_number |-> NewPhone,
                                                     password |-> Password]))
  \/ RegisterCreate(1)
  \/ \E t \in AccessTokens :
        Authenticated(1, UserRequest("list_users", [token |-> t]), "list_users")
  \/ ListUsers(1)
  \/ \E t \in AccessTokens, id \in AdminUserIds :
        Authenticated(1, UserRequest("get_user", [token |-> t, user_id |-> id]), "get_user")
  \/ GetUser(1)
  \/ \E t \in AccessTokens, ph \in {PhoneOf(2), PhoneOf(NumUsers + 2)} :
        CreateUserAuth(1, UserRequest("create_user",
                             [ token |-> t, phone_number |-> ph,
                               is_staff |-> FALSE, is_active |-> TRUE ]))
  \/ CreateUserCheck(1)
  \/ CreateUserCreate(1)
  \/ \E t \in AccessTokens, id \in AdminUserIds :
        Authenticated(1, UserRequest("update_user",
                            [ token |-> t, user_id |-> id,
                              payload |-> [department |-> NotNull("QA")] ]), "update_user")
  \/ UpdateUserFetch(1)
  \/ UpdateUserSave(1)
  \/ \E t \in AccessTokens, id \in AdminUserIds :
        DeleteUserAuth(1, UserRequest("delete_user", [token |-> t, user_id |-> id]))
  \/ DeleteUserFetch(1)
  \/ DeleteUserSave(1)

SpecAdmin == Init /\ [][NextAdmin]_vars

-----------------------------------------------------------------------------
(* SpecProfile: NumProcs workers; the first user (staff) deactivates the    *)
(* last user while that user's profile is updated and password changed;    *)
(* one body sets one field, the other sets a field and sends null for the   *)
(* other                                                                    *)

NextProfile ==
  \E p \in Procs :
     \/ \E u \in {1, NumUsers} : ~Relogin(LoginRequest(u, Password))
                                  /\ Login(p, LoginRequest(u, Password))
     \/ \E t \in TokensOf(NumUsers) :
           Authenticated(p, UserRequest("update_profile",
                               [token |-> t, payload |-> [department |-> NotNull("QA")]]),
                         "update_profile")
     \/ UpdateProfileSave(p)
     \/ \E t \in AccessTokens :
           Authenticated(p, UserRequest("update_user",
                               [ token |-> t, user_id |-> NumUsers,
                                 payload |-> [ first_name |-> NotNull("C"),
                                               department |-> Null ] ]),
                         "update_user")
     \/ UpdateUserFetch(p)
     \/ UpdateUserSave(p)
     \/ \E t \in TokensOf(NumUsers), old \in {Password, "wrong"} :
           Authenticated(p, UserRequest("change_password",
                               [ token |-> t, old_password |-> old,
                                 new_password |-> "password2" ]),
                         "change_password")
     \/ ChangePasswordSave(p)
     \/ \E t \in TokensOf(1) :
           DeleteUserAuth(p, UserRequest("delete_user", [token |-> t, user_id |-> NumUsers]))
     \/ DeleteUserFetch(p)
     \/ DeleteUserSave(p)

SpecProfile == Init /\ [][NextProfile]_vars

-----------------------------------------------------------------------------
(* SpecRefs: one worker; forms are stored for the last initial user and for *)
(* the user who registers; users are then created, updated and deactivated  *)

NextRefs ==
  \/ \E r \in {LoginRequest(1, Password)} : ~Relogin(r) /\ Login(1, r)
  \/ RegisterCheckExists(1, UserRequest("register", [phone_number |-> NewPhone,
                                                     password |-> Password]))
  \/ RegisterCreate(1)
  \/ \E fn \in FormNumbers, by \in {StrOfInt(NumUsers), <<"9">>} :
        /\ StoredRecords < MaxRecords
        /\ WheelResolveUser(1, WheelRequest("valid", fn, by, "2025-01-21", FieldsSame))
  \/ WheelCheckExists(1)
  \/ WheelInsert(1)
  \/ /\ StoredRecords < MaxRecords
     /\ BogieResolveUser(1, BogieRequest("valid", <<"b">>, StrOfInt(NumUsers + 1), "2025-01-21",
                                         BogieDetails(<<"B", "1">>, TRUE),
                                         BogieConditionsGood, BmbcConditionsGood))
  \/ BogieCheckExists(1)
  \/ BogieInsert(1)
  \/ \E t \in TokensOf(1) :
        CreateUserAuth(1, UserRequest("create_user",
                             [ token |-> t, phone_number |-> PhoneOf(NumUsers + 2),
                               is_staff |-> FALSE, is_active |-> TRUE ]))
  \/ CreateUserCheck(1)
  \/ CreateUserCreate(1)
  \/ \E t \in AccessTokens :
        Authenticated(1, UserRequest("update_profile",
                            [token |-> t, payload |-> [department |-> NotNull("QA")]]),
                      "update_profile")
  \/ UpdateProfileSave(1)
  \/ \E t \in TokensOf(1) :
        Authenticated(1, UserRequest("update_user",
                            [ token |-> t, user_id |-> NumUsers,
                              payload |-> [first_name |-> NotNull("C")] ]), "update_user")
  \/ UpdateUserFetch(1)
  \/ UpdateUserSave(1)
  \/ \E t \in TokensOf(1), id \in {NumUsers, NumUsers + 1} :
        DeleteUserAuth(1, UserRequest("delete_user", [token |-> t, user_id |-> id]))
  \/ DeleteUserFetch(1)
  \/ DeleteUserSave(1)

SpecRefs == Init /\ [][NextRefs]_vars

-----------------------------------------------------------------------------
(* Properties *)

\* a response is sent in this step
Responds == last' # last /\ last'.resp.status # 0

\* process p executes its INSERT statement in this step
Inserts(p) == pc[p] = "insert" /\ pc'[p] = "idle"

WheelFormNumberStored(fn) == \E w \in wheels : w.form_number = fn

BogieFormNumberStored(fn) == \E b \in bogies : b.form_number = fn

\* every text value of the request fits the column it is written to
WheelBodyFits(body) ==
  /\ Len(body.formNumber) <= 50
  /\ \A k \in {"variationSameAxle", "variationSameBogie", "variationSameCoach"} :
        Len(body.fields[k]) <= 50
  /\ \A k \in WheelKeys : Len(body.fields[k]) <= 100

BogieBodyFits(body) ==
  /\ Len(body.formNumber) <= 50
  /\ \A k \in DOMAIN body.bogieChecksheet : Len(body.bogieChecksheet[k]) <= 50
  /\ \A k \in DOMAIN body.bmbcChecksheet : Len(body.bmbcChecksheet[k]) <= 50

\* C1: in every state reached by interleaved create_wheel_specification and
\* create_bogie_checksheet calls, no two stored WheelSpecification records and
\* no two stored BogieChecksheet records have the same form_number.
C1_FormNumberUnique ==
  /\ \A a, b \in wheels : a.form_number = b.form_number => a = b
  /\ \A a, b \in bogies : a.form_number = b.form_number => a = b

\* C1 witness: two workers raced on one form number with different contents;
\* one row is stored and the other worker's INSERT was refused.
C1_Witness ==
  /\ last.req.op = "create_wheel"
  /\ last.resp.status = 400
  /\ last.resp.errors.text = "IntegrityError"
  /\ \E w \in wheels : /\ w.form_number = last.req.body.formNumber
                       /\ w.submitted_date # last.req.body.submittedDate
  /\ bogies # {}

\* C2 (as claimed): a worker whose INSERT is refused because another worker
\* stored the same form number after this worker's exists() pre-check leaves
\* the store unchanged and answers with the duplicate-form-number error.
C2_RaceReportsDuplicate ==
  [][\A p \in Procs :
       /\ Inserts(p) /\ req[p].op = "create_wheel" /\ WheelBodyFits(req[p].body)
          /\ WheelFormNumberStored(req[p].body.formNumber)
          => wheels' = wheels /\ last'.resp = FormNumberExists
       /\ Inserts(p) /\ req[p].op = "create_bogie" /\ BogieBodyFits(req[p].body)
          /\ BogieFormNumberStored(req[p].body.formNumber)
          => bogies' = bogies /\ last'.resp = FormNumberExists]_vars

\* the text is the decimal numeral (leading zeros allowed) of an existing user id
RefResolves(ref) == IntOfText(ref) \in users

StoreUnchanged == wheels' = wheels /\ bogies' = bogies /\ users' = users

\* C3 (as claimed): a create whose form number is already stored fails with
\* the duplicate-form-number error whatever its other fields are, the user
\* reference included, and leaves the store unchanged.
C3_DuplicateWhateverFields ==
  [][/\ Responds /\ last'.req.op = "create_wheel"
        /\ WheelFormNumberStored(last'.req.body.formNumber)
        => last'.resp = FormNumberExists /\ StoreUnchanged
     /\ Responds /\ last'.req.op = "create_bogie"
        /\ BogieFormNumberStored(last'.req.body.formNumber)
        => last'.resp = FormNumberExists /\ StoreUnchanged]_vars

\* C3 (amended): a create whose user reference resolves and whose form number
\* is already stored fails with the duplicate-form-number error whatever its
\* other fields are, and leaves the store unchanged.
C3_DuplicateAfterUserResolved ==
  [][/\ Responds /\ last'.req.op = "create_wheel"
        /\ RefResolves(last'.req.body.submittedBy)
        /\ WheelFormNumberStored(last'.req.body.formNumber)
        => last'.resp = FormNumberExists /\ StoreUnchanged
     /\ Responds /\ last'.req.op = "create_bogie"
        /\ RefResolves(last'.req.body.inspectionBy)
        /\ BogieFormNumberStored(last'.req.body.formNumber)
        => last'.resp = FormNumberExists /\ StoreUnchanged]_vars

\* C3 witness: a wheel create was refused as a duplicate although its
\* measurement values differ from those of the stored record.
C3_Witness ==
  /\ last.req.op = "create_wheel"
  /\ last.resp = FormNumberExists
  /\ \E w \in wheels : /\ w.form_number = last.req.body.formNumber
                       /\ w.fields.wheel_gauge # last.req.body.fields.wheelGauge

\* C4: a create whose submitter/inspector id does not resolve to an existing
\* user (unknown numeric id or non-numeric text) returns 400 naming the user
\* reference, and the stored records are the same after the call as before.
C4_InvalidUserRejected ==
  [][/\ Responds /\ last'.req.op = "create_wheel"
        /\ ~RefResolves(last'.req.body.submittedBy)
        => /\ last'.resp.status = 400 /\ last'.resp.success = FALSE
           /\ last'.resp.errors = [field |-> "submitted_by", text |-> "User not found"]
           /\ StoreUnchanged
     /\ Responds /\ last'.req.op = "create_bogie"
        /\ ~RefResolves(last'.req.body.inspectionBy)
        => /\ last'.resp.status = 400 /\ last'.resp.success = FALSE
           /\ last'.resp.errors = [field |-> "inspection_by", text |-> "User not found"]
           /\ StoreUnchanged]_vars

\* C4 witness: a bogie create with a non-numeric inspector was refused while
\* a record is stored.
C4_Witness ==
  /\ last.req.op = "create_bogie"
  /\ IntOfText(last.req.body.inspectionBy) = -1
  /\ last.resp.status = 400
  /\ last.resp.errors.field = "inspection_by"
  /\ wheels # {}

\* the step stores exactly one new wheel row holding the values of body and
\* answers 201 with the identity fields
WheelCreated(body) ==
  /\ \E w \in wheels' \ wheels :
        /\ wheels' = wheels \cup {w}
        /\ w.form_number = body.formNumber
        /\ w.submitted_by = IntOfText(body.submittedBy)
        /\ w.submitted_date = body.submittedDate
        /\ \A f \in WheelFieldNames : w.fields[f] = body.fields[WheelAlias[f]]
        /\ w.status = "submitted"
        /\ last'.resp.data.submittedBy = StrOfInt(w.submitted_by)
  /\ bogies' = bogies
  /\ last'.resp.status = 201 /\ last'.resp.success
  /\ last'.resp.data.formNumber = body.formNumber
  /\ last'.resp.data.submittedDate = body.submittedDate
  /\ last'.resp.data.status = "Submitted"

\* the bogie counterpart of WheelCreated
BogieCreated(body) ==
  /\ \E b \in bogies' \ bogies :
        /\ bogies' = bogies \cup {b}
        /\ b.form_number = body.formNumber
        /\ b.inspection_by = IntOfText(body.inspectionBy)
        /\ b.inspection_date = body.inspectionDate
        /\ b.bogie_no = body.bogieDetails.bogieNo
        /\ b.maker_year_built = body.bogieDetails.makerYearBuilt
        /\ b.incoming_div_and_date = body.bogieDetails.incomingDivAndDate
        /\ b.date_of_ioh = body.bogieDetails.dateOfIOH
        /\ "deficitComponents" \in DOMAIN body.bogieDetails
              => b.deficit_components = body.bogieDetails.deficitComponents
        /\ \A f \in BogieConditionNames :
              b.conditions[f] = body.bogieChecksheet[ConditionAlias[f]]
        /\ \A f \in BmbcConditionNames :
              b.conditions[f] = body.bmbcChecksheet[ConditionAlias[f]]
        /\ b.status = "submitted"
        /\ last'.resp.data.inspectionBy = StrOfInt(b.inspection_by)
  /\ wheels' = wheels
  /\ last'.resp.status = 201 /\ last'.resp.success
  /\ last'.resp.data.formNumber = body.formNumber
  /\ last'.resp.data.inspectionDate = body.inspectionDate
  /\ last'.resp.data.status = "Submitted"

\* C5 (as claimed): every create that passed the user lookup and the
\* form-number pre-check stores exactly one record holding the request's
\* values with status 'submitted' and returns 201 with the identity fields.
C5_CheckedCreateSucceeds ==
  [][\A p \in Procs :
       /\ Inserts(p) /\ req[p].op = "create_wheel" => WheelCreated(req[p].body)
       /\ Inserts(p) /\ req[p].op = "create_bogie" => BogieCreated(req[p].body)]_vars

\* C5 (amended): every create that passed the user lookup and the pre-check,
\* whose form number is still not stored when its INSERT runs and whose text
\* values fit their columns, stores exactly one record holding the request's
\* values with status 'submitted' and returns 201 with the identity fields.
C5_AcceptedCreateSucceeds ==
  [][\A p \in Procs :
       /\ Inserts(p) /\ req[p].op = "create_wheel"
          /\ ~WheelFormNumberStored(req[p].body.formNumber)
          /\ WheelBodyFits(req[p].body)
          => WheelCreated(req[p].body)
       /\ Inserts(p) /\ req[p].op = "create_bogie"
          /\ ~BogieFormNumberStored(req[p].body.formNumber)
          /\ BogieBodyFits(req[p].body)
          => BogieCreated(req[p].body)]_vars

\* C5 witness: a wheel create sent with the reference "01" was answered 201
\* for user "1" and its row is stored next to a bogie record.
C5_Witness ==
  /\ last.req.op = "create_wheel"
  /\ last.req.body.submittedBy = <<"0", "1">>
  /\ last.resp.status = 201
  /\ last.resp.data.submittedBy = <<"1">>
  /\ \E w \in wheels : w.form_number = last.req.body.formNumber /\ w.status = "submitted"
  /\ bogies # {}

\* C6 (as claimed): a form request without a valid bearer token is rejected
\* with 401, creates no record and returns no stored records.
C6_BearerTokenRequired ==
  /\ \A r \in posted : r.token = "valid"
  /\ last.req.op # "none" /\ last.req.token # "valid" /\ last.resp.status # 0
        => last.resp.status = 401

\* needle occurs in hay as a contiguous part, letter case ignored
CiSubstring(hay, needle) ==
  \E i \in 0..Len(hay) : \E j \in i..Len(hay) :
     Lower(SubSeq(hay, i + 1, j)) = Lower(needle)

\* the form numbers of the entries a response returns (none on an error)
Returned(resp) == IF resp.status = 200 THEN {e.formNumber : e \in resp.data} ELSE {}

DataOf(resp) == IF resp.status = 200 THEN resp.data ELSE {}

WheelParams == {"form_number", "submitted_by", "submitted_date"}

BogieParams == {"form_number", "inspection_by", "inspection_date", "bogie_no"}

\* the parameters of params the query carries
Supplied(query, params) == {k \in params : query[k].some}

\* the parameters of params the query carries with a non-empty value
NonEmpty(query, params) ==
  {k \in params : /\ query[k].some
                  /\ k \in {"submitted_date", "inspection_date"} \/ query[k].v # <<>>}

\* the form numbers of the stored wheel rows that satisfy filter k = v
WheelMatching(k, v) ==
  { w.form_number : w \in
      { w \in wheels :
          CASE k = "form_number" -> CiSubstring(w.form_number, v)
            [] k = "submitted_by" -> RefResolves(v) /\ w.submitted_by = IntOfText(v)
            [] k = "submitted_date" -> w.submitted_date = v } }

\* the form numbers of the stored bogie rows that satisfy filter k = v
BogieMatching(k, v) ==
  { b.form_number : b \in
      { b \in bogies :
          CASE k = "form_number" -> CiSubstring(b.form_number, v)
            [] k = "inspection_by" -> RefResolves(v) /\ b.inspection_by = IntOfText(v)
            [] k = "inspection_date" -> b.inspection_date = v
            [] k = "bogie_no" -> CiSubstring(b.bogie_no, v) } }

\* the last exchange is a list call that returned one entry per returned form number
ListedOnce == last.resp.status = 200 => Cardinality(last.resp.data) = Cardinality(Returned(last.resp))

\* C7 (as claimed): a list call without filter returns every stored record of
\* the type, and a list call that carries one filter returns exactly the
\* stored records satisfying it (case-insensitive containment for form_number
\* and bogie_no, equality for the date and for the referenced user).
C7_OneFilterExact ==
  /\ last.req.op = "get_wheels" /\ ~last.req.query.formNumber.some =>
       LET q == last.req.query
           given == Supplied(q, WheelParams)
       IN /\ ListedOnce
          /\ given = {} =>
                last.resp.status = 200
                /\ Returned(last.resp) = {w.form_number : w \in wheels}
          /\ \A k \in given : given = {k} =>
                Returned(last.resp) = WheelMatching(k, q[k].v)
  /\ last.req.op = "get_bogies" /\ ~last.req.query.bogieNo.some =>
       LET q == last.req.query
           given == Supplied(q, BogieParams)
       IN /\ ListedOnce
          /\ given = {} =>
                last.resp.status = 200
                /\ Returned(last.resp) = {b.form_number : b \in bogies}
          /\ \A k \in given : given = {k} =>
                Returned(last.resp) = BogieMatching(k, q[k].v)

\* C7 (amended): a list call in which no filter has a non-empty value returns
\* every stored record of the type (a filter given as empty text is ignored),
\* and a list call that carries one non-empty filter returns exactly the
\* stored records satisfying it.
C7_OneNonEmptyFilterExact ==
  /\ last.req.op = "get_wheels" /\ ~last.req.query.formNumber.some =>
       LET q == last.req.query
           given == NonEmpty(q, WheelParams)
       IN /\ ListedOnce
          /\ given = {} =>
                last.resp.status = 200
                /\ Returned(last.resp) = {w.form_number : w \in wheels}
          /\ \A k \in given : given = {k} =>
                Returned(last.resp) = WheelMatching(k, q[k].v)
  /\ last.req.op = "get_bogies" /\ ~last.req.query.bogieNo.some =>
       LET q == last.req.query
           given == NonEmpty(q, BogieParams)
       IN /\ ListedOnce
          /\ given = {} =>
                last.resp.status = 200
                /\ Returned(last.resp) = {b.form_number : b \in bogies}
          /\ \A k \in given : given = {k} =>
                Returned(last.resp) = BogieMatching(k, q[k].v)

\* C7 witness: with the wheel records "Ab" and "b" stored, the list filtered
\* by form_number "a" returned the record "Ab" alone.
C7_Witness ==
  /\ last.req.op = "get_wheels"
  /\ last.req.query.form_number = Given(<<"a">>)
  /\ Supplied(last.req.query, WheelParams) = {"form_number"}
  /\ last.resp.status = 200
  /\ Returned(last.resp) = {<<"A", "b">>}
  /\ Cardinality(wheels) = 2

\* the members common to every set of the non-empty family F
Inter(F) == {x \in UNION F : \A S \in F : x \in S}

\* the query that carries parameter k of query alone
WheelOnly(query, k) ==
  [ form_number    |-> IF k = "form_number" THEN query.form_number ELSE Absent,
    submitted_by   |-> IF k = "submitted_by" THEN query.submitted_by ELSE Absent,
    submitted_date |-> IF k = "submitted_date" THEN query.submitted_date ELSE Absent,
    formNumber     |-> Absent ]

BogieOnly(query, k) ==
  [ form_number     |-> IF k = "form_number" THEN query.form_number ELSE Absent,
    inspection_by   |-> IF k = "inspection_by" THEN query.inspection_by ELSE Absent,
    inspection_date |-> IF k = "inspection_date" THEN query.inspection_date ELSE Absent,
    bogie_no        |-> IF k = "bogie_no" THEN query.bogie_no ELSE Absent,
    bogieNo         |-> Absent ]

\* C8: for every combination of supplied list filters the returned set equals
\* the intersection of the sets returned for each supplied filter on its own.
C8_FiltersIntersect ==
  /\ last.req.op = "get_wheels" =>
       LET q == last.req.query
           given == Supplied(q, WheelParams)
       IN given # {} =>
            DataOf(last.resp) =
               Inter({DataOf(WheelListResponse(WheelOnly(q, k))) : k \in given})
  /\ last.req.op = "get_bogies" =>
       LET q == last.req.query
           given == Supplied(q, BogieParams)
       IN given # {} =>
            DataOf(last.resp) =
               Inter({DataOf(BogieListResponse(BogieOnly(q, k))) : k \in given})

\* C8 witness: a bogie list with all four filters returned one of two stored
\* checksheets, and a wheel list narrowed by form number and date exists too.
C8_Witness ==
  /\ last.req.op = "get_bogies"
  /\ Supplied(last.req.query, BogieParams) = BogieParams
  /\ last.resp.status = 200
  /\ Cardinality(last.resp.data) = 1
  /\ Cardinality(bogies) = 2

\* the listed wheel entry e carries the measurement values of the posted body
WheelFieldsEcho(e, body) == \A k \in WheelKeys : e.fields[k] = body.fields[k]

\* the listed bogie entry e carries the detail and condition values of body
BogieFieldsEcho(e, body) ==
  /\ \A k \in DOMAIN body.bogieDetails : e.bogieDetails[k] = body.bogieDetails[k]
  /\ \A k \in DOMAIN body.bogieChecksheet : e.bogieChecksheet[k] = body.bogieChecksheet[k]
  /\ \A k \in DOMAIN body.bmbcChecksheet : e.bmbcChecksheet[k] = body.bmbcChecksheet[k]

\* C9 (as claimed): for every record created by a successful POST, a later
\* GET filtered by its form number returns an entry for that form number
\* whose submitter/inspector, date and every measurement or condition field
\* equal the values sent in the POST.
C9_RoundTripVerbatim ==
  \A r \in posted :
     /\ r.op = "create_wheel" /\ last.req.op = "get_wheels"
        /\ last.req.query.form_number = Given(r.body.formNumber)
        => /\ last.resp.status = 200
           /\ \E e \in last.resp.data :
                 /\ e.formNumber = r.body.formNumber
                 /\ e.submittedBy = r.body.submittedBy
                 /\ e.submittedDate = r.body.submittedDate
                 /\ WheelFieldsEcho(e, r.body)
     /\ r.op = "create_bogie" /\ last.req.op = "get_bogies"
        /\ last.req.query.form_number = Given(r.body.formNumber)
        => /\ last.resp.status = 200
           /\ \E e \in last.resp.data :
                 /\ e.formNumber = r.body.formNumber
                 /\ e.inspectionBy = r.body.inspectionBy
                 /\ e.inspectionDate = r.body.inspectionDate
                 /\ BogieFieldsEcho(e, r.body)

\* C9 (amended): as claimed, except that the entry's submitter/inspector is
\* the decimal numeral of the id the posted reference resolved to (the value
\* sent, without leading zeros).
C9_RoundTripCanonicalUser ==
  \A r \in posted :
     /\ r.op = "create_wheel" /\ last.req.op = "get_wheels"
        /\ last.req.query.form_number = Given(r.body.formNumber)
        => /\ last.resp.status = 200
           /\ \E e \in last.resp.data :
                 /\ e.formNumber = r.body.formNumber
                 /\ e.submittedBy = StrOfInt(IntOfText(r.body.submittedBy))
                 /\ e.submittedDate = r.body.submittedDate
                 /\ WheelFieldsEcho(e, r.body)
     /\ r.op = "create_bogie" /\ last.req.op = "get_bogies"
        /\ last.req.query.form_number = Given(r.body.formNumber)
        => /\ last.resp.status = 200
           /\ \E e \in last.resp.data :
                 /\ e.formNumber = r.body.formNumber
                 /\ e.inspectionBy = StrOfInt(IntOfText(r.body.inspectionBy))
                 /\ e.inspectionDate = r.body.inspectionDate
                 /\ BogieFieldsEcho(e, r.body)

\* C9 witness: the wheel record "b" was posted with fifteen distinct values,
\* another wheel record was created as well, and the list filtered by "b"
\* returned both.
C9_Witness ==
  /\ last.req.op = "get_wheels"
  /\ last.req.query.form_number = Given(<<"b">>)
  /\ \E r \in posted : /\ r.op = "create_wheel" /\ r.body.formNumber = <<"b">>
                       /\ r.body.fields = FieldsDistinct
  /\ last.resp.status = 200
  /\ Cardinality(last.resp.data) = 2

\* C10 (as claimed): a GET bogie-checksheets request that gives the bogie
\* number filter under the name bogieNo, with a value contained in no stored
\* bogie number, returns 200 with success=true and an empty data array.
C10_ExternalNameFilters ==
  last.req.op = "get_bogies" /\ last.req.query.bogieNo.some
  /\ Supplied(last.req.query, BogieParams) = {}
  /\ (\A b \in bogies : ~CiSubstring(b.bogie_no, last.req.query.bogieNo.v))
  => last.resp.status = 200 /\ last.resp.success /\ last.resp.data = {}

\* C11 (as claimed): a list call whose submitted_by/inspection_by filter does
\* not resolve to an existing user fails with the 400 user-not-found error
\* and returns no record data, whatever other filters come with it.
C11_UnresolvedUserFilter ==
  /\ last.req.op = "get_wheels" /\ last.req.query.submitted_by.some
     /\ ~RefResolves(last.req.query.submitted_by.v)
     => /\ last.resp.status = 400 /\ last.resp.success = FALSE
        /\ last.resp.errors = [field |-> "submitted_by", text |-> "User not found"]
        /\ "data" \notin DOMAIN last.resp
  /\ last.req.op = "get_bogies" /\ last.req.query.inspection_by.some
     /\ ~RefResolves(last.req.query.inspection_by.v)
     => /\ last.resp.status = 400 /\ last.resp.success = FALSE
        /\ last.resp.errors = [field |-> "inspection_by", text |-> "User not found"]
        /\ "data" \notin DOMAIN last.resp

\* C11 (amended): a list call whose non-empty submitted_by/inspection_by
\* filter does not resolve to an existing user fails with the 400
\* user-not-found error and returns no record data, whatever other filters
\* come with it; an empty filter value is not looked up at all.
C11_UnresolvedNonEmptyUserFilter ==
  /\ last.req.op = "get_wheels" /\ last.req.query.submitted_by.some
     /\ last.req.query.submitted_by.v # <<>>
     /\ ~RefResolves(last.req.query.submitted_by.v)
     => /\ last.resp.status = 400 /\ last.resp.success = FALSE
        /\ last.resp.errors = [field |-> "submitted_by", text |-> "User not found"]
        /\ "data" \notin DOMAIN last.resp
  /\ last.req.op = "get_bogies" /\ last.req.query.inspection_by.some
     /\ last.req.query.inspection_by.v # <<>>
     /\ ~RefResolves(last.req.query.inspection_by.v)
     => /\ last.resp.status = 400 /\ last.resp.success = FALSE
        /\ last.resp.errors = [field |-> "inspection_by", text |-> "User not found"]
        /\ "data" \notin DOMAIN last.resp

\* C11 witness: with a checksheet stored, a bogie list that carried all four
\* filters, the inspector given as non-numeric text, was refused with 400.
C11_Witness ==
  /\ last.req.op = "get_bogies"
  /\ Supplied(last.req.query, BogieParams) = BogieParams
  /\ last.req.query.inspection_by.v = <<"x">>
  /\ last.resp.status = 400
  /\ bogies # {}

FormOps == {"create_wheel", "create_bogie", "get_wheels", "get_bogies"}

\* C12 (as claimed): every failing outcome of the four form operations, a
\* validation failure included, is returned with HTTP status 400 and the
\* shared envelope: success=false, a message and an errors map.
C12_ErrorsShareEnvelope ==
  last.req.op \in FormOps /\ last.resp.status \notin {0, 200, 201}
  => /\ last.resp.status = 400
     /\ {"success", "message", "errors"} \subseteq DOMAIN last.resp
     /\ last.resp.success = FALSE

\* the create body lacks a required key or carries a date that is no ISO
\* calendar date
WheelBodyIncomplete(body) ==
  \/ \E k \in {"formNumber", "submittedBy", "submittedDate", "fields"} : k \notin DOMAIN body
  \/ "fields" \in DOMAIN body /\ \E k \in WheelKeys : k \notin DOMAIN body.fields
  \/ "submittedDate" \in DOMAIN body /\ body.submittedDate \in {"21-01-2025", "2025-02-30"}

BogieBodyIncomplete(body) ==
  \/ \E k \in {"formNumber", "inspectionBy", "inspectionDate", "bogieDetails",
               "bogieChecksheet", "bmbcChecksheet"} : k \notin DOMAIN body
  \/ "bogieDetails" \in DOMAIN body
     /\ \/ \E k \in {"bogieNo", "makerYearBuilt", "incomingDivAndDate", "dateOfIOH"} :
              k \notin DOMAIN body.bogieDetails
        \/ "dateOfIOH" \in DOMAIN body.bogieDetails
           /\ body.bogieDetails.dateOfIOH \in {"21-01-2025", "2025-02-30"}
  \/ "bogieChecksheet" \in DOMAIN body
     /\ \E f \in BogieConditionNames : ConditionAlias[f] \notin DOMAIN body.bogieChecksheet
  \/ "bmbcChecksheet" \in DOMAIN body
     /\ \E f \in BmbcConditionNames : ConditionAlias[f] \notin DOMAIN body.bmbcChecksheet
  \/ "inspectionDate" \in DOMAIN body /\ body.inspectionDate \in {"21-01-2025", "2025-02-30"}

\* C13: a create request whose body lacks a required field or carries a
\* malformed date is rejected before the handler runs: the answer is an
\* error, no handler step (user lookup, pre-check, insert) is taken for it
\* and the stored records are unchanged.
C13_InvalidBodyRejected ==
  [][/\ last' # last /\ last'.req.op = "create_wheel"
        /\ WheelBodyIncomplete(last'.req.body)
        => /\ last'.resp.status \notin {0, 200, 201}
           /\ StoreUnchanged
           /\ UNCHANGED <<pc, req, usr, posted>>
     /\ last' # last /\ last'.req.op = "create_bogie"
        /\ BogieBodyIncomplete(last'.req.body)
        => /\ last'.resp.status \notin {0, 200, 201}
           /\ StoreUnchanged
           /\ UNCHANGED <<pc, req, usr, posted>>]_vars

\* C13 witness: with a checksheet stored, a bogie create whose date of IOH is
\* no calendar date was rejected.
C13_Witness ==
  /\ last.req.op = "create_bogie"
  /\ "bogieDetails" \in DOMAIN last.req.body
  /\ "dateOfIOH" \in DOMAIN last.req.body.bogieDetails
  /\ last.req.body.bogieDetails.dateOfIOH = "2025-02-30"
  /\ last.resp.status = 422
  /\ bogies # {}

\* C14: in every state reachable through the create and list operations,
\* every stored wheel specification and bogie checksheet has status
\* 'submitted'; none of saved, reviewed, approved or rejected is reached.
C14_StatusSubmitted ==
  /\ \A w \in wheels : w.status = "submitted"
  /\ \A b \in bogies : b.status = "submitted"

\* C14 witness: a record of each type is stored and a list has been answered.
C14_Witness ==
  /\ wheels # {} /\ bogies # {}
  /\ last.req.op = "get_bogies" /\ last.resp.status = 200
  /\ \E e \in last.resp.data : e.status = "Submitted"

\* C15: every step of a create or list operation keeps each stored record,
\* with the same form number and the same value in every field: no record is
\* updated or deleted and the set of stored records only grows.
C15_RecordsKept ==
  [][wheels \subseteq wheels' /\ bogies \subseteq bogies']_vars

\* C15 witness: two wheel specifications have been created one after the
\* other and a list has been answered since.
C15_Witness ==
  /\ Cardinality(wheels) = 2
  /\ last.req.op = "get_wheels" /\ last.resp.status = 200
  /\ Cardinality(last.resp.data) = 2

\* the condition values named in the field descriptions and model choices
DocumentedConditions ==
  { <<"G", "o", "o", "d">>, <<"F", "a", "i", "r">>, <<"P", "o", "o", "r">>,
    <<"D", "a", "m", "a", "g", "e", "d">>, <<"W", "o", "r", "n">>,
    <<"C", "r", "a", "c", "k", "e", "d">>,
    <<"G", "O", "O", "D">>, <<"F", "A", "I", "R">>,
    <<"W", "O", "R", "N", " ", "O", "U", "T">>,
    <<"D", "A", "M", "A", "G", "E", "D">> }

\* some condition value of the create body is outside the vocabulary
OutsideVocabulary(body) ==
  \/ \E k \in DOMAIN body.bogieChecksheet : body.bogieChecksheet[k] \notin DocumentedConditions
  \/ \E k \in DOMAIN body.bmbcChecksheet : body.bmbcChecksheet[k] \notin DocumentedConditions

\* every bogie list answered in the next state shows, for each created
\* checksheet it returns, the nine condition values as they were posted
ConditionsListedVerbatim ==
  last'.req.op = "get_bogies" /\ last'.resp.status = 200 =>
     \A r \in posted' : r.op = "create_bogie" =>
        \A e \in last'.resp.data : e.formNumber = r.body.formNumber =>
           /\ e.bogieChecksheet = r.body.bogieChecksheet
           /\ e.bmbcChecksheet = r.body.bmbcChecksheet

\* C16 (as claimed): a bogie create whose condition values lie outside the
\* documented vocabulary and whose form number is free succeeds as one with
\* documented values does (201, one row holding the values), whatever the
\* strings are, and the values are listed verbatim afterwards.
C16_AnyConditionAccepted ==
  [][/\ \A p \in Procs :
          Inserts(p) /\ req[p].op = "create_bogie" /\ OutsideVocabulary(req[p].body)
          /\ ~BogieFormNumberStored(req[p].body.formNumber)
          => BogieCreated(req[p].body)
     /\ ConditionsListedVerbatim]_vars

\* C16 (amended): as claimed, for condition values of at most 50 characters.
C16_AnyShortConditionAccepted ==
  [][/\ \A p \in Procs :
          Inserts(p) /\ req[p].op = "create_bogie" /\ OutsideVocabulary(req[p].body)
          /\ ~BogieFormNumberStored(req[p].body.formNumber)
          /\ BogieBodyFits(req[p].body)
          => BogieCreated(req[p].body)
     /\ ConditionsListedVerbatim]_vars

\* C16 witness: a checksheet posted with undocumented condition values is
\* stored and a later list shows the values as posted.
C16_Witness ==
  /\ last.req.op = "get_bogies" /\ last.resp.status = 200
  /\ \E e \in last.resp.data :
        /\ e.bogieChecksheet.bolster = <<"z", "z">>
        /\ e.bmbcChecksheet.cylinderBody = <<"g", "o", "o", "d">>
  /\ \E b \in bogies : b.conditions.bolster = <<"z", "z">>

\* some user already has this phone number
PhoneTaken(phone_number) == \E u \in users : accounts[u].phone_number = phone_number

UsersUnchanged == users' = users /\ accounts' = accounts

\* C17 (as claimed): no two users ever have the same phone number, and a
\* register or create_user call (by a staff caller) with a phone number that
\* already belongs to a user is answered with the 400 'already exists' error
\* and creates no user.
C17_PhoneNumberUnique ==
  /\ [](\A u, v \in users : accounts[u].phone_number = accounts[v].phone_number => u = v)
  /\ [][/\ Responds /\ last'.req.op = "register" /\ PhoneTaken(last'.req.phone_number)
           => /\ last'.resp.status = 400
              /\ last'.resp.body.detail = "User with this phone number already exists"
              /\ UsersUnchanged
        /\ Responds /\ last'.req.op = "create_user" /\ last'.resp.status # 401
           /\ last'.req.auth.is_staff /\ PhoneTaken(last'.req.phone_number)
           => /\ last'.resp.status = 400
              /\ last'.resp.body.detail = "User with this phone number already exists"
              /\ UsersUnchanged]_vars

\* C18 (as claimed): delete_user called by a staff user on another existing
\* user sets only that user's is_active to False and keeps the record;
\* called with the caller's own id it returns the 400 'Cannot delete your own
\* account' error and leaves every user unchanged.
C18_SoftDeleteNotSelf ==
  [][/\ Responds /\ last'.req.op = "delete_user" /\ last'.resp.status # 401
        /\ last'.req.auth.is_staff /\ last'.req.user_id \in users
        /\ last'.req.auth.id # last'.req.user_id
        => /\ last'.resp.status = 200
           /\ users' = users
           /\ accounts' = [accounts EXCEPT ![last'.req.user_id].is_active = FALSE]
     /\ Responds /\ last'.req.op = "delete_user" /\ last'.resp.status # 401
        /\ last'.req.auth.is_staff /\ last'.req.auth.id = last'.req.user_id
        => /\ last'.resp.status = 400
           /\ last'.resp.body.detail = "Cannot delete your own account"
           /\ UsersUnchanged]_vars

\* C19 (as claimed): after any interleaving of delete_user calls issued by
\* authenticated active staff users, at least one active staff user remains.
C19_ActiveStaffRemains ==
  \E u \in users : accounts[u].is_staff /\ accounts[u].is_active

\* the request is made with the credentials or a token of user u
ActsFor(r, u) ==
  CASE r.op = "login" -> accounts[u].phone_number = r.phone_number /\ accounts[u].password = r.password
    [] r.op = "refresh" -> r.refresh_token.user = u
    [] r.op \in {"get_profile", "delete_user", "create_wheel", "get_wheels"} -> r.token.user = u
    [] OTHER -> FALSE

\* C20 (as claimed): once delete_user has deactivated a user, a login with
\* their credentials returns 401, and no profile, refresh or form request
\* made with their tokens succeeds.
C20_DeactivatedShutOut ==
  [][\A u \in users :
        Responds /\ ~accounts[u].is_active /\ ActsFor(last'.req, u)
        => /\ last'.resp.status \notin {200, 201}
           /\ last'.req.op = "login" => last'.resp.status = 401]_vars

\* C24: the create handlers resolve the user before they check the form
\* number and insert only after both checks passed: a create with an
\* unresolvable user and an already stored form number reports the
\* user-not-found error; a process reaches the pre-check only with a resolved
\* user, reaches the insert only from a pre-check that found the form number
\* free, and rows are added only by a process at its insert.
C24_UserBeforeFormNumber ==
  [][/\ Responds /\ last'.req.op = "create_wheel"
        /\ ~RefResolves(last'.req.body.submittedBy)
        /\ WheelFormNumberStored(last'.req.body.formNumber)
        => last'.resp.errors.field = "submitted_by" /\ StoreUnchanged
     /\ Responds /\ last'.req.op = "create_bogie"
        /\ ~RefResolves(last'.req.body.inspectionBy)
        /\ BogieFormNumberStored(last'.req.body.formNumber)
        => last'.resp.errors.field = "inspection_by" /\ StoreUnchanged
     /\ \A p \in Procs :
          /\ pc'[p] = "check" /\ pc[p] # "check"
             => /\ pc[p] = "idle"
                /\ usr'[p] \in users
                /\ req'[p].op = "create_wheel" => usr'[p] = IntOfText(req'[p].body.submittedBy)
                /\ req'[p].op = "create_bogie" => usr'[p] = IntOfText(req'[p].body.inspectionBy)
          /\ pc'[p] = "insert" /\ pc[p] # "insert"
             => /\ pc[p] = "check" /\ usr[p] \in users
                /\ req[p].op = "create_wheel" => ~WheelFormNumberStored(req[p].body.formNumber)
                /\ req[p].op = "create_bogie" => ~BogieFormNumberStored(req[p].body.formNumber)
     /\ wheels' # wheels \/ bogies' # bogies => \E p \in Procs : Inserts(p)]_vars

\* C24 witness: with the form number stored, a wheel create that named an
\* unknown user was refused for the user.
C24_Witness ==
  /\ last.req.op = "create_wheel"
  /\ ~RefResolves(last.req.body.submittedBy)
  /\ WheelFormNumberStored(last.req.body.formNumber)
  /\ last.resp.status = 400
  /\ last.resp.errors.field = "submitted_by"

WheelEntryKeys == {"formNumber", "submittedBy", "submittedDate", "status", "fields"}

BogieEntryKeys ==
  {"formNumber", "inspectionBy", "inspectionDate", "status",
   "bogieDetails", "bogieChecksheet", "bmbcChecksheet"}

\* C25: a successful list response carries the 'Filtered ...' message exactly
\* when at least one filter was applied (a parameter of the handler given with
\* a non-empty value) and the 'All ...' message otherwise, and every entry of
\* the data array has the same keys in both cases.
C25_MessageTellsFiltered ==
  /\ last.req.op = "get_wheels" /\ last.resp.status = 200
     => /\ last.resp.message =
             IF NonEmpty(last.req.query, WheelParams) # {}
             THEN "Filtered wheel specification forms fetched successfully."
             ELSE "All wheel specification forms fetched successfully."
        /\ \A e \in last.resp.data :
              DOMAIN e = WheelEntryKeys /\ DOMAIN e.fields = WheelKeys
  /\ last.req.op = "get_bogies" /\ last.resp.status = 200
     => /\ last.resp.message =
             IF NonEmpty(last.req.query, BogieParams) # {}
             THEN "Filtered bogie checksheet forms fetched successfully."
             ELSE "All bogie checksheet forms fetched successfully."
        /\ \A e \in last.resp.data : DOMAIN e = BogieEntryKeys

\* C25 witness: a wheel list with two filters returned an entry under the
\* 'Filtered' message.
C25_Witness ==
  /\ last.req.op = "get_wheels" /\ last.resp.status = 200
  /\ Cardinality(NonEmpty(last.req.query, WheelParams)) = 2
  /\ last.resp.message = "Filtered wheel specification forms fetched successfully."
  /\ last.resp.data # {}

\* C26: a list call, on success and on failure and with any filters, leaves
\* every stored record and every user unchanged, and the same call made again
\* in the state it leaves returns the same result.
C26_ListsReadOnly ==
  [][/\ last' # last /\ last'.req.op = "get_wheels"
        => /\ StoreUnchanged /\ accounts' = accounts
           /\ \A query \in {last'.req.query} : last'.resp = WheelListResponse(query)'
     /\ last' # last /\ last'.req.op = "get_bogies"
        => /\ StoreUnchanged /\ accounts' = accounts
           /\ \A query \in {last'.req.query} : last'.resp = BogieListResponse(query)']_vars

\* C26 witness: with two wheel specifications stored, a wheel list whose user
\* filter does not resolve has failed.
C26_Witness ==
  /\ last.req.op = "get_wheels"
  /\ last.resp.status = 400
  /\ Cardinality(wheels) = 2

\* the user management operations
AdminOps == {"list_users", "get_user", "create_user", "update_user", "delete_user"}

\* the request is one a non-staff caller may not make: a list, a create, a
\* delete, or a get or update of a user other than the caller
StaffOnly(r) ==
  \/ r.op \in {"list_users", "create_user", "delete_user"}
  \/ r.op \in {"get_user", "update_user"} /\ r.user_id # r.auth.id

\* C21 (as claimed): a non-staff caller gets 403 'Permission denied' from
\* list_users, create_user and delete_user, and from get_user and update_user
\* for every user id other than their own, and no user is created or changed.
C21_NonStaffDenied ==
  [][Responds /\ last'.req.op \in AdminOps /\ last'.resp.status # 401
       /\ ~last'.req.auth.is_staff /\ StaffOnly(last'.req)
       => /\ last'.resp.status = 403
          /\ last'.resp.body.detail = "Permission denied"
          /\ UsersUnchanged]_vars

\* C23 (as claimed): a successful refresh rotates both tokens: the response
\* carries an access token that was not issued before and a refresh token
\* different from the one presented.
C23_RefreshRotatesBoth ==
  [][Responds /\ last'.req.op = "refresh" /\ last'.resp.status = 200
       => /\ last'.resp.body.access_token \notin issued
          /\ last'.resp.body.refresh_token # last'.req.refresh_token]_vars

\* process p executes the user.save() of an update_profile or update_user
\* call in this step
SavesProfile(p) ==
  /\ pc'[p] = "idle"
  /\ \/ pc[p] = "handler" /\ req[p].op = "update_profile"
     \/ pc[p] = "save" /\ req[p].op = "update_user"

\* the user an update_profile or update_user request is about
TargetOf(r) == IF r.op = "update_profile" THEN r.auth.id ELSE r.user_id

\* C22 (as claimed): update_profile and update_user change exactly the
\* profile fields supplied: a field supplied with a value takes it, every
\* field of the target user that the request does not supply keeps its
\* previous value, and every other user is unchanged.
C22_OnlySuppliedFieldsChange ==
  [][\A p \in Procs :
       SavesProfile(p)
       => /\ users' = users
          /\ \A k \in DOMAIN accounts[TargetOf(req[p])] :
                IF k \in DOMAIN req[p].payload
                THEN req[p].payload[k].null
                     \/ accounts'[TargetOf(req[p])][k] = req[p].payload[k].v
                ELSE accounts'[TargetOf(req[p])][k] = accounts[TargetOf(req[p])][k]
          /\ \A v \in users \ {TargetOf(req[p])} : accounts'[v] = accounts[v]]_vars

\* C28 (as claimed): once delete_user has set a user's is_active to False it
\* stays False, whatever update_profile, update_user and change_password
\* requests for that user were authenticated before and save afterwards.
C28_DeactivationKept ==
  [][\A u \in users : ~accounts[u].is_active => ~accounts'[u].is_active]_vars

\* C27: in every state reached through form creates, register, create_user,
\* update_profile, update_user and delete_user, the submitted_by of every
\* stored wheel specification and the inspection_by of every stored bogie
\* checksheet is an existing user; a delete_user call removes no user and no
\* form record.
C27_ReferencesResolve ==
  /\ [](/\ \A w \in wheels : w.submitted_by \in users
        /\ \A b \in bogies : b.inspection_by \in users)
  /\ [][\A p \in Procs :
          req[p].op = "delete_user" /\ pc'[p] # pc[p]
          => /\ wheels' = wheels /\ bogies' = bogies
             /\ users \subseteq users']_vars

\* C27 witness: a wheel specification and a bogie checksheet are stored for
\* two users, both of whom delete_user has deactivated.
C27_Witness ==
  /\ \E w \in wheels : w.submitted_by \in users /\ ~accounts[w.submitted_by].is_active
  /\ \E b \in bogies : b.inspection_by \in users /\ ~accounts[b.inspection_by].is_active

====
